---- MODULE Spec2Model ----
(***************************************************************************)
(* Verification model of the chop editor's multi-cursor text buffer        *)
(* engine: the pure TextBuffer transformations (buffer.rs), the Pane and   *)
(* Selection data (pane.rs), the SyncList snapshot store, the op           *)
(* dispatcher thread (buffer_op_handler) and the UI thread's handlers      *)
(* (app.rs) that feed it.                                                  *)
(*                                                                         *)
(* Text is a sequence of bytes.  "a", "x", "z" are one-byte letters, "\n" is*)
(* the line terminator and <<"c3","a9">> is the two-byte UTF-8 encoding of *)
(* one grapheme, so byte offsets and grapheme counts differ and offset     *)
(* arithmetic can land inside a grapheme.                                  *)
(***************************************************************************)
EXTENDS Integers, Sequences, FiniteSets, TLC

VARIABLES
    buffers,          \* published SyncList<TextBuffer> (a sequence, index = BufferId + 1)
    panes,            \* published SyncList<Pane>       (a sequence, index = PaneId + 1)
    queue,            \* mpsc channel of (BufferOp, Vec<PaneId>) from the UI to the dispatcher
    tx_alive,         \* TRUE while App (the owner of buffer_tx) lives
    render_q,         \* mpsc channel of CustomEvent from the dispatcher to the UI
    d_pc,             \* position of the dispatcher thread inside buffer_op_handler
    d_local,          \* the dispatcher's locals for the intent being applied
    ui_pc,            \* position of the UI thread inside window_event
    ui_pane,          \* the pane the UI thread is about to store
    ui_events,        \* number of input events the UI thread has handled
    glyph_pos_cache,  \* keys of the glyph position cache of the last redraw
    disk,             \* the file system: contents of the buffer's file, or NoFile
    hist,             \* history: the last operation applied and its inputs
    fold,             \* history: the pure transformations folded in queue order
    stores,           \* history: which thread published to which list while the dispatcher runs
    sl_heap,          \* SyncList in isolation: the allocated Vec values by address
    sl_ptr,           \* SyncList in isolation: the ArcSwap pointer
    sl_guards,        \* SyncList in isolation: the address each reader's Guard holds
    debug_build,      \* TRUE for a build with overflow checks (debug), FALSE for release
    fmt               \* a FilterMapTerminate over the closure's results, with the calls made

vars == <<buffers, panes, queue, tx_alive, render_q, d_pc, d_local, ui_pc, ui_pane,
          ui_events, glyph_pos_cache, disk, hist, fold, stores, sl_heap, sl_ptr, sl_guards,
          debug_build, fmt>>

sysvars == <<queue, tx_alive, render_q, d_pc, d_local, ui_pc, ui_pane,
             ui_events, glyph_pos_cache, fold, stores, debug_build, fmt>>

slvars == <<sl_heap, sl_ptr, sl_guards>>

----------------------------------------------------------------------------
(* Bounds of the model *)

MaxGraphemes == 3     \* graphemes in an initial text
MaxCursors == 3       \* cursors in an initial pane
MaxEvents == 3        \* input events the UI thread handles
MaxAllocs == 4        \* lists a SyncList allocates
MaxIntents == 4       \* intents the dispatcher applies on its own

----------------------------------------------------------------------------
(* Bytes and text *)

NL == "\n"
Lead == "c3"
Cont == "a9"
Wide == <<Lead, Cont>>

\* the graphemes of an initial text, and the texts a key press inserts
Graphemes == {<<"a">>, <<NL>>, Wide}
InsertTexts == {<<"x">>, <<NL>>, Wide, <<"x", "z">>}
HorizontalOffsets == {-2, -1, 0, 1, 2}
VerticalOffsets == {-2, -1, 1, 2}
SelectionOffsets == {0, 1}

RECURSIVE TextsOf(_)
TextsOf(n) ==
    IF n = 0 THEN {<< >>}
    ELSE LET shorter == TextsOf(n - 1)
         IN  shorter \cup {t \o g : t \in shorter, g \in Graphemes}

Min(a, b) == IF a < b THEN a ELSE b
Max(a, b) == IF a > b THEN a ELSE b
Abs(n) == IF n < 0 THEN -n ELSE n

\* the order of usize: a negative number stands for the value 2^64 less of it, which
\* is what a subtraction that wrapped leaves behind (-1 is usize::MAX)
UsizeLe(a, b) == IF (a < 0) = (b < 0) THEN a <= b ELSE b < 0

RECURSIVE SortedSeq(_)
SortedSeq(S) ==
    IF S = {} THEN << >>
    ELSE LET m == CHOOSE x \in S : \A y \in S : UsizeLe(x, y)
         IN  <<m>> \o SortedSeq(S \ {m})

RECURSIVE SumSeq(_)
SumSeq(s) == IF s = << >> THEN 0 ELSE s[1] + SumSeq(Tail(s))

----------------------------------------------------------------------------
(* The rope operations the buffer uses (crop::Rope).  Each one panics on an *)
(* offset that is out of bounds or, where it slices, inside a code point;  *)
(* the ...Ok predicates are the conditions under which it does not.        *)

ByteLen(c) == Len(c)

InBounds(c, i) == i >= 0 /\ i <= Len(c)

IsCharBoundary(c, i) == InBounds(c, i) /\ (i = Len(c) \/ c[i + 1] # Cont)

\* defined for InBounds(c, i)
IsGraphemeBoundary(c, i) == i = 0 \/ i = Len(c) \/ c[i + 1] # Cont

\* a variant that writes the text over the bytes that follow
RopeInsertOverwriting(c, at, t) ==
    SubSeq(c, 1, at) \o t \o SubSeq(c, at + Len(t) + 1, Len(c))

RopeInsert(c, at, t) == SubSeq(c, 1, at) \o t \o SubSeq(c, at + 1, Len(c))

RopeDelete(c, from, to) == SubSeq(c, 1, from) \o SubSeq(c, to + 1, Len(c))

ByteSlice(c, from, to) == SubSeq(c, from + 1, to)

LineBreaks(c) == Cardinality({i \in 1..Len(c) : c[i] = NL})

\* lines().count(): a trailing newline does not open another line
LineLen(c) ==
    IF Len(c) = 0 THEN 0
    ELSE LineBreaks(c) + (IF c[Len(c)] = NL THEN 0 ELSE 1)

\* defined for InBounds(c, b)
LineOfByte(c, b) == Cardinality({i \in 1..b : c[i] = NL})

\* defined for l <= LineLen(c)
ByteOfLine(c, l) ==
    IF l = 0 THEN 0
    ELSE IF l > LineBreaks(c) THEN Len(c)
    ELSE CHOOSE i \in 1..Len(c) : c[i] = NL /\ LineOfByte(c, i) = l

GraphemeCount(c) == Cardinality({i \in 1..Len(c) : c[i] # Cont})

----------------------------------------------------------------------------
(* Selection, Pane, TextBuffer (pane.rs, buffer.rs) *)

UsizeMax == -1        \* usize::MAX, the "no cursor matched" marker; never a byte offset

\* Option<FileInfo>
None == [some |-> FALSE]

Selection(start, offset) == [start |-> start, offset |-> offset]

SelectionEnd(s) == s.start + s.offset

EmptyMap == << >>

MapInsert(m, k, v) == [x \in (DOMAIN m) \cup {k} |-> IF x = k THEN v ELSE m[x]]

MapRemove(m, k) == [x \in (DOMAIN m) \ {k} |-> m[x]]

PaneNew(buffer_id, pane_id) ==
    [cursors |-> MapInsert(EmptyMap, 0, Selection(0, 0)),
     main_cursor_start |-> 0,
     grapheme_col_offset |-> 0,
     buffer_id |-> buffer_id,
     id |-> pane_id,
     y_offset |-> 0,
     mode |-> "Normal"]

\* the selections in ascending key order
CursorsIter(pane) ==
    LET ks == SortedSeq(DOMAIN pane.cursors)
    IN  [i \in 1..Len(ks) |-> pane.cursors[ks[i]]]

FileInfo(filename, is_modified, file_time) ==
    [some |-> TRUE, filename |-> filename, is_modified |-> is_modified,
     file_time |-> file_time]

TextBuffer(file, contents) == [file |-> file, contents |-> contents]

FromBlank == TextBuffer(None, << >>)

NumLines(buf) == LineLen(buf.contents)

\* results of an operation that can panic
Panic(why) == [ok |-> FALSE, why |-> why]
Ok(buf, new_panes) == [ok |-> TRUE, buf |-> buf, panes |-> new_panes]

\* reset_grapheme_col_offset panics unless start can be sliced to
ResetOk(contents, start) == IsCharBoundary(contents, start)

reset_grapheme_col_offset(contents, start) ==
    LET line_start == ByteOfLine(contents, LineOfByte(contents, start))
    IN  GraphemeCount(ByteSlice(contents, line_start, start))

\* a variant of the opening assertions that lets any number of panes through
OnePaneAnyCount(ps, active) ==
    /\ Cardinality({ps[i].buffer_id : i \in 1..Len(ps)}) = 1
    /\ Len(active) = 1
    /\ \E i \in 1..Len(ps) : ps[i].id = active[1]

\* the assertions every transformation opens with
OnePane(ps, active) ==
    /\ Cardinality({ps[i].buffer_id : i \in 1..Len(ps)}) = 1
    /\ Len(active) = 1
    /\ Len(ps) = 1
    /\ \E i \in 1..Len(ps) : ps[i].id = active[1]

ActivePane(ps, active) ==
    ps[CHOOSE i \in 1..Len(ps) : ps[i].id = active[1] /\ \A j \in 1..(i - 1) : ps[j].id # active[1]]

\* a variant that fills the other fields from Pane::new() instead of ..*pane
WithCursorsOfNewPane(pane, cursors, main_cursor_start, grapheme_col_offset) ==
    [PaneNew(pane.buffer_id, pane.id) EXCEPT
                 !.cursors = cursors,
                 !.main_cursor_start = main_cursor_start,
                 !.grapheme_col_offset = grapheme_col_offset]

WithCursors(pane, cursors, main_cursor_start, grapheme_col_offset) ==
    [pane EXCEPT !.cursors = cursors,
                 !.main_cursor_start = main_cursor_start,
                 !.grapheme_col_offset = grapheme_col_offset]

----------------------------------------------------------------------------
(* TextBuffer::insert *)

\* a variant that leaves the file info as it is
InsertFileKept(file) == file

InsertFile(file) == IF file.some THEN [file EXCEPT !.is_modified = TRUE] ELSE None

\* a variant that forgets the insertions already made at earlier cursors
AdjustedStartUnshifted(s, incr, i) == s.start

\* let adjusted_start = s.start + incr*i
AdjustedStart(s, incr, i) == s.start + incr * i

\* a variant that files each cursor under the offset its text went in at
RECURSIVE InsertLoopKeyedByInsertionPoint(_, _, _, _, _)
InsertLoopKeyedByInsertionPoint(ss, i, text, old_main, acc) ==
    IF i = Len(ss) \/ ~acc.ok THEN acc
    ELSE LET s == ss[i + 1]
             incr == Len(text)
             adjusted_start == AdjustedStart(s, incr, i)
             start == adjusted_start + incr
         IN  IF ~IsCharBoundary(acc.contents, adjusted_start) THEN Panic("rope offset")
             ELSE InsertLoopKeyedByInsertionPoint(ss, i + 1, text, old_main,
                     [ok |-> TRUE,
                      contents |-> RopeInsert(acc.contents, adjusted_start, text),
                      cursors |-> MapInsert(acc.cursors, adjusted_start, Selection(start, 0)),
                      main_cursor_start |->
                          IF s.start = old_main THEN start ELSE acc.main_cursor_start])

RECURSIVE InsertLoop(_, _, _, _, _)
InsertLoop(ss, i, text, old_main, acc) ==
    IF i = Len(ss) \/ ~acc.ok THEN acc
    ELSE LET s == ss[i + 1]
             incr == Len(text)
             adjusted_start == AdjustedStart(s, incr, i)
             start == adjusted_start + incr
         IN  IF ~IsCharBoundary(acc.contents, adjusted_start) THEN Panic("rope offset")
             ELSE InsertLoop(ss, i + 1, text, old_main,
                     [ok |-> TRUE,
                      contents |-> RopeInsert(acc.contents, adjusted_start, text),
                      cursors |-> MapInsert(acc.cursors, start, Selection(start, 0)),
                      main_cursor_start |->
                          IF s.start = old_main THEN start ELSE acc.main_cursor_start])

Insert(buf, text, ps, active) ==
    IF ~OnePane(ps, active) THEN Panic("involved panes")
    ELSE LET pane == ActivePane(ps, active)
             r == InsertLoop(CursorsIter(pane), 0, text, pane.main_cursor_start,
                     [ok |-> TRUE, contents |-> buf.contents, cursors |-> EmptyMap,
                      main_cursor_start |-> UsizeMax])
         IN  IF ~r.ok THEN r
             ELSE IF r.main_cursor_start = UsizeMax THEN Panic("no main cursor")
             ELSE IF ~ResetOk(r.contents, r.main_cursor_start) THEN Panic("rope offset")
             ELSE Ok(TextBuffer(InsertFile(buf.file), r.contents),
                     <<WithCursors(pane, r.cursors, r.main_cursor_start,
                          reset_grapheme_col_offset(r.contents, r.main_cursor_start))>>)

----------------------------------------------------------------------------
(* TextBuffer::backdelete_cursor *)

\* while !contents.is_grapheme_boundary(start) { start -= 1 }
RECURSIVE BoundaryAtOrBefore(_, _)
BoundaryAtOrBefore(c, start) ==
    IF IsGraphemeBoundary(c, start) THEN start ELSE BoundaryAtOrBefore(c, start - 1)

\* the deleting pass, cursors in descending order; i counts the cursors done
RECURSIVE DeleteLoop(_, _, _)
DeleteLoop(ss, i, acc) ==
    IF i = Len(ss) \/ ~acc.ok THEN acc
    ELSE LET cursor == ss[Len(ss) - i]
             from == (IF UsizeLe(cursor.start, 1) THEN 1 ELSE cursor.start) - 1
         IN  IF ~InBounds(acc.contents, from) THEN Panic("rope offset")
             ELSE LET start == BoundaryAtOrBefore(acc.contents, from)
                      end == cursor.start
                  IN  IF ~IsCharBoundary(acc.contents, end) THEN Panic("rope offset")
                      ELSE DeleteLoop(ss, i + 1,
                              [ok |-> TRUE,
                               contents |-> RopeDelete(acc.contents, start, end),
                               deleted_bytes |-> Append(acc.deleted_bytes, end - start)])

\* a variant that sums from the front: deleted_bytes[i] += deleted_bytes[i-1]
PrefixSums(d) == [i \in 1..Len(d) |-> SumSeq(SubSeq(d, 1, i))]

\* for i in (0..len-1).rev() { deleted_bytes[i] += deleted_bytes[i+1] }
SuffixSums(d) == [i \in 1..Len(d) |-> SumSeq(SubSeq(d, i, Len(d)))]

\* a variant that looks for the main cursor among the new starts: if start == main
RECURSIVE ReanchorLoopMainByNewStart(_, _, _, _, _)
ReanchorLoopMainByNewStart(ss, i, deleted_bytes, old_main, acc) ==
    IF i = Len(ss) \/ ~acc.ok THEN acc
    ELSE LET s == ss[i + 1]
             start == s.start - deleted_bytes[Len(deleted_bytes) - i]
         IN  IF s.start >= 0 /\ start < 0 /\ debug_build THEN Panic("subtract with overflow")
             ELSE ReanchorLoopMainByNewStart(ss, i + 1, deleted_bytes, old_main,
                     [ok |-> TRUE,
                      cursors |-> MapInsert(acc.cursors, start, Selection(start, 0)),
                      main_cursor_start |->
                          IF start = old_main THEN start ELSE acc.main_cursor_start])

\* s.start - deleted_bytes[..] below zero panics in a build with overflow checks and
\* wraps in one without
RECURSIVE ReanchorLoop(_, _, _, _, _)
ReanchorLoop(ss, i, deleted_bytes, old_main, acc) ==
    IF i = Len(ss) \/ ~acc.ok THEN acc
    ELSE LET s == ss[i + 1]
             start == s.start - deleted_bytes[Len(deleted_bytes) - i]
         IN  IF s.start >= 0 /\ start < 0 /\ debug_build THEN Panic("subtract with overflow")
             ELSE ReanchorLoop(ss, i + 1, deleted_bytes, old_main,
                     [ok |-> TRUE,
                      cursors |-> MapInsert(acc.cursors, start, Selection(start, 0)),
                      main_cursor_start |->
                          IF s.start = old_main THEN start ELSE acc.main_cursor_start])

BackdeleteCursor(buf, ps, active) ==
    IF ~OnePane(ps, active) THEN Panic("involved panes")
    ELSE LET pane == ActivePane(ps, active)
             ss == CursorsIter(pane)
             d == DeleteLoop(ss, 0, [ok |-> TRUE, contents |-> buf.contents,
                                     deleted_bytes |-> << >>])
         IN  IF ~d.ok THEN d
             ELSE IF Len(ss) = 0 THEN Panic("subtract with overflow")
             ELSE LET r == ReanchorLoop(ss, 0, SuffixSums(d.deleted_bytes),
                              pane.main_cursor_start,
                              [ok |-> TRUE, cursors |-> EmptyMap,
                               main_cursor_start |-> UsizeMax])
                  IN  IF ~r.ok THEN r
                      ELSE IF r.main_cursor_start = UsizeMax THEN Panic("no main cursor")
                      \* the column is measured in self.contents, the text before the deletion
                      ELSE IF ~ResetOk(buf.contents, r.main_cursor_start) THEN Panic("rope offset")
                      ELSE Ok(TextBuffer(buf.file, d.contents),
                              <<WithCursors(pane, r.cursors, r.main_cursor_start,
                                   reset_grapheme_col_offset(buf.contents, r.main_cursor_start))>>)

----------------------------------------------------------------------------
(* TextBuffer::move_horizontal *)

\* while !contents.is_grapheme_boundary(start) { start += dir }
RECURSIVE BoundaryToward(_, _, _)
BoundaryToward(c, start, dir) ==
    IF IsGraphemeBoundary(c, start) THEN start ELSE BoundaryToward(c, start + dir, dir)

\* a variant that steps over bytes instead of graphemes
WalkHorizontalBytes(c, start, dir, n) == Min(Max(start + dir * n, 0), ByteLen(c))

RECURSIVE WalkHorizontal(_, _, _, _)
WalkHorizontal(c, start, dir, n) ==
    IF n = 0 THEN start
    ELSE WalkHorizontal(c, BoundaryToward(c, Min(Max(start + dir, 0), ByteLen(c)), dir),
                        dir, n - 1)

RECURSIVE MoveHorizontalLoop(_, _, _, _, _, _, _)
MoveHorizontalLoop(c, ss, i, dir, n, old_main, acc) ==
    IF i = Len(ss) THEN acc
    ELSE LET s == ss[i + 1]
             start == WalkHorizontal(c, s.start, dir, n)
         IN  MoveHorizontalLoop(c, ss, i + 1, dir, n, old_main,
                 [cursors |-> MapInsert(acc.cursors, start, Selection(start, 0)),
                  main_cursor_start |->
                      IF s.start = old_main THEN start ELSE acc.main_cursor_start])

\* a variant that tracks the column by the delta instead of recomputing it
MoveHorizontalByDelta(buf, offset, ps, active) ==
    IF ~OnePane(ps, active) THEN Panic("involved panes")
    ELSE IF offset = 0 THEN Panic("division by zero")
    ELSE LET pane == ActivePane(ps, active)
             dir == IF offset > 0 THEN 1 ELSE -1
             r == MoveHorizontalLoop(buf.contents, CursorsIter(pane), 0, dir, Abs(offset),
                      pane.main_cursor_start,
                      [cursors |-> EmptyMap, main_cursor_start |-> UsizeMax])
         IN  IF r.main_cursor_start = UsizeMax THEN Panic("no main cursor")
             ELSE Ok(TextBuffer(buf.file, buf.contents),
                     <<WithCursors(pane, r.cursors, r.main_cursor_start,
                          Max(pane.grapheme_col_offset + offset, 0))>>)

MoveHorizontal(buf, offset, ps, active) ==
    IF ~OnePane(ps, active) THEN Panic("involved panes")
    \* let dir = offset / offset.abs() divides by zero
    ELSE IF offset = 0 THEN Panic("division by zero")
    ELSE LET pane == ActivePane(ps, active)
             dir == IF offset > 0 THEN 1 ELSE -1
             r == MoveHorizontalLoop(buf.contents, CursorsIter(pane), 0, dir, Abs(offset),
                      pane.main_cursor_start,
                      [cursors |-> EmptyMap, main_cursor_start |-> UsizeMax])
         IN  IF r.main_cursor_start = UsizeMax THEN Panic("no main cursor")
             ELSE IF ~ResetOk(buf.contents, r.main_cursor_start) THEN Panic("rope offset")
             ELSE Ok(TextBuffer(buf.file, buf.contents),
                     <<WithCursors(pane, r.cursors, r.main_cursor_start,
                          reset_grapheme_col_offset(buf.contents, r.main_cursor_start))>>)

----------------------------------------------------------------------------
(* TextBuffer::move_vertical *)

\* a variant that forgets the column
WalkColumnToLineStart(c, start, other_line_end, n) == start

\* the column walk: for _ in 0..grapheme_col_offset { ... }
RECURSIVE WalkColumn(_, _, _, _)
WalkColumn(c, start, other_line_end, n) ==
    IF n = 0 \/ start + 1 >= other_line_end THEN start
    ELSE WalkColumn(c, BoundaryToward(c, start + 1, 1), other_line_end, n - 1)

VerticalTarget(c, s, offset, grapheme_col_offset) ==
    LET line == LineOfByte(c, s.start)
        other_line == Min(Max(line + offset, 0), LineLen(c))
        other_line_start == ByteOfLine(c, other_line)
        other_line_end == IF other_line = LineLen(c) THEN ByteLen(c)
                          ELSE ByteOfLine(c, other_line + 1)
    IN  WalkColumn(c, other_line_start, other_line_end, grapheme_col_offset)

RECURSIVE MoveVerticalLoop(_, _, _, _, _, _)
MoveVerticalLoop(c, ss, i, offset, pane, acc) ==
    IF i = Len(ss) \/ ~acc.ok THEN acc
    ELSE LET s == ss[i + 1]
         IN  IF ~InBounds(c, s.start) THEN Panic("rope offset")
             ELSE LET start == VerticalTarget(c, s, offset, pane.grapheme_col_offset)
                  IN  MoveVerticalLoop(c, ss, i + 1, offset, pane,
                          [ok |-> TRUE,
                           cursors |-> MapInsert(acc.cursors, start, Selection(start, 0)),
                           main_cursor_start |->
                               IF s.start = pane.main_cursor_start THEN start
                               ELSE acc.main_cursor_start])

\* a variant that recomputes the column from the new position, as the other
\* transformations do
MoveVerticalRecomputing(buf, offset, ps, active) ==
    IF ~OnePane(ps, active) THEN Panic("involved panes")
    ELSE LET pane == ActivePane(ps, active)
             r == MoveVerticalLoop(buf.contents, CursorsIter(pane), 0, offset, pane,
                      [ok |-> TRUE, cursors |-> EmptyMap, main_cursor_start |-> UsizeMax])
         IN  IF ~r.ok THEN r
             ELSE IF r.main_cursor_start = UsizeMax THEN Panic("no main cursor")
             ELSE Ok(TextBuffer(buf.file, buf.contents),
                     <<WithCursors(pane, r.cursors, r.main_cursor_start,
                          reset_grapheme_col_offset(buf.contents, r.main_cursor_start))>>)

MoveVertical(buf, offset, ps, active) ==
    IF ~OnePane(ps, active) THEN Panic("involved panes")
    ELSE LET pane == ActivePane(ps, active)
             r == MoveVerticalLoop(buf.contents, CursorsIter(pane), 0, offset, pane,
                      [ok |-> TRUE, cursors |-> EmptyMap, main_cursor_start |-> UsizeMax])
         IN  IF ~r.ok THEN r
             ELSE IF r.main_cursor_start = UsizeMax THEN Panic("no main cursor")
             ELSE Ok(TextBuffer(buf.file, buf.contents),
                     <<WithCursors(pane, r.cursors, r.main_cursor_start,
                          pane.grapheme_col_offset)>>)

----------------------------------------------------------------------------
(* Files: TextBuffer::from_filename and TextBuffer::write *)

Gib == 1073741824     \* 1024*1024*1024; sizes are [hi, lo] with value hi*Gib + lo

Size(hi, lo) == [hi |-> hi, lo |-> lo]

SizeGe(a, b) == a.hi > b.hi \/ (a.hi = b.hi /\ a.lo >= b.lo)

SizeGt(a, b) == a.hi > b.hi \/ (a.hi = b.hi /\ a.lo > b.lo)

\* let three_gb = 3*1024*1024*1024
three_gb == Size(3, 0)

NoFile == [exists |-> FALSE]

\* a file: its size, its bytes (not kept for the files too large for the model's
\* texts) and the clock of the file system
File(size, contents, clock) ==
    [exists |-> TRUE, size |-> size, contents |-> contents, clock |-> clock]

SmallFile(contents, clock) == File(Size(0, Len(contents)), contents, clock)

\* read_to_string fails on bytes that are not UTF-8
Utf8(c) ==
    \A i \in 1..Len(c) :
        /\ c[i] = Cont => i > 1 /\ c[i - 1] = Lead
        /\ c[i] = Lead => i < Len(c) /\ c[i + 1] = Cont

\* a variant that lets a file of exactly 3 GiB through
TooLargeExclusive(size) == SizeGt(size, three_gb)

\* if size >= three_gb
TooLarge(size) == SizeGe(size, three_gb)

FromFilename(d, filename) ==
    IF ~d.exists THEN [ok |-> FALSE, err |-> "metadata", read |-> FALSE]
    ELSE IF TooLarge(d.size)
         THEN [ok |-> FALSE, err |-> "File was larger than 3GB", read |-> FALSE]
    ELSE IF ~Utf8(d.contents) THEN [ok |-> FALSE, err |-> "read_to_string", read |-> TRUE]
    ELSE [ok |-> TRUE, read |-> TRUE,
          buf |-> TextBuffer(FileInfo(filename, FALSE, d.clock), d.contents)]

\* the first k bytes of new written over old from position 0; OpenOptions::new()
\* .write(true) neither truncates nor creates
Overwrite(old, new, k) == SubSeq(new, 1, k) \o SubSeq(old, k + 1, Len(old))

\* what the operating system can answer to write(buf, filename): a missing file is not
\* created, so its open fails; otherwise the open or any write_all may fail
IoOutcomes(buf, d) ==
    IF ~d.exists THEN {[kind |-> "open_err"]}
    ELSE {[kind |-> "ok"], [kind |-> "open_err"]}
            \cup {[kind |-> "write_err", written |-> k] : k \in 0..(Len(buf.contents) - 1)}

\* the file after write(buf, filename) with the given outcome of the I/O
WriteDisk(buf, d, io) ==
    IF ~d.exists \/ io.kind = "open_err" THEN d
    ELSE LET k == IF io.kind = "ok" THEN Len(buf.contents) ELSE io.written
             bytes == Overwrite(d.contents, buf.contents, k)
         IN  File(Size(0, Len(bytes)), bytes, d.clock + 1)

\* a variant that reports success whatever the I/O did
WriteIgnoringErrors(buf, filename, d, io) ==
    [ok |-> TRUE,
     buf |-> TextBuffer(FileInfo(filename, FALSE, IF d.exists THEN d.clock + 1 ELSE 0),
                        buf.contents)]

\* the Result of write(buf, filename)
Write(buf, filename, d, io) ==
    IF ~d.exists \/ io.kind # "ok" THEN [ok |-> FALSE]
    ELSE [ok |-> TRUE, buf |-> TextBuffer(FileInfo(filename, FALSE, d.clock + 1), buf.contents)]

----------------------------------------------------------------------------
(* SyncList::store, store_all, involved_panes on the published lists *)

\* a variant that pushes whatever the index
StoreAppending(list, index, v) == Append(list, v)

Store(list, index, v) ==
    IF index = Len(list) THEN Append(list, v) ELSE [list EXCEPT ![index + 1] = v]

RECURSIVE StoreAll(_, _)
StoreAll(list, new_panes) ==
    IF new_panes = << >> THEN list
    ELSE StoreAll(Store(list, new_panes[1].id, new_panes[1]), Tail(new_panes))

InvolvedPanes(list, buf_id) == SelectSeq(list, LAMBDA pane : pane.buffer_id = buf_id)

----------------------------------------------------------------------------
(* filter_map_terminate (filter_map.rs): the adaptor over an iterator whose *)
(* items are numbered from 1; items[i] is what the closure returns for item *)
(* i, and Some carries the number of the item.                              *)

FMTOption == {"Some", "None", "Terminate"}

\* FilterMapTerminate::new(iter, f), nothing polled yet
FilterMapTerminateNew(items) ==
    [items |-> items, terminated |-> FALSE,
     pos |-> 0,            \* items the underlying iterator has given out
     polls |-> 0,          \* calls of iter.next()
     calls |-> 0,          \* calls of the closure
     yielded |-> << >>,    \* the values returned as Some(val), in order
     last |-> "none",      \* what the last next() returned
     nexts |-> 0]          \* calls of next()

FmtIdle == FilterMapTerminateNew(<< >>)

\* while let Some(item) = self.iter.next() { match (self.f)(item) { ... } } None
RECURSIVE FilterMapTerminateLoop(_)
FilterMapTerminateLoop(st) ==
    IF st.pos = Len(st.items) THEN [st EXCEPT !.polls = @ + 1, !.last = "None"]
    ELSE LET item == st.pos + 1
             polled == [st EXCEPT !.pos = item, !.polls = @ + 1, !.calls = @ + 1]
         IN  CASE st.items[item] = "Some" ->
                      [polled EXCEPT !.yielded = Append(@, item), !.last = "Some"]
               [] st.items[item] = "None" -> FilterMapTerminateLoop(polled)
               [] st.items[item] = "Terminate" ->
                      [polled EXCEPT !.terminated = TRUE, !.last = "None"]

\* a variant without the check of the terminated flag
FilterMapTerminateNextUnfused(st) == FilterMapTerminateLoop(st)

\* next()
FilterMapTerminateNext(st) ==
    IF st.terminated THEN [st EXCEPT !.last = "None"]
    ELSE FilterMapTerminateLoop(st)

----------------------------------------------------------------------------
(* Pane::key, Pane::normal, Pane::insert, Pane::scroll_y (pane.rs) *)

Named(n) == [kind |-> "Named", name |-> n, super |-> FALSE]
Character(s, super) == [kind |-> "Character", s |-> s, super |-> super]

Op(name, arg) == [op |-> name, arg |-> arg]

PaneInsertKey(k) ==
    IF k.kind = "Named"
    THEN CASE k.name = "Enter" -> [mode |-> "Insert", ops |-> <<Op("Insert", <<NL>>)>>]
           [] k.name = "ArrowLeft" -> [mode |-> "Insert", ops |-> <<Op("MoveHorizontal", -1)>>]
           [] k.name = "ArrowRight" -> [mode |-> "Insert", ops |-> <<Op("MoveHorizontal", 1)>>]
           [] k.name = "ArrowUp" -> [mode |-> "Insert", ops |-> <<Op("MoveVertical", -1)>>]
           [] k.name = "ArrowDown" -> [mode |-> "Insert", ops |-> <<Op("MoveVertical", 1)>>]
           [] k.name = "Space" -> [mode |-> "Insert", ops |-> <<Op("Insert", <<" ">>)>>]
           [] k.name = "Backspace" -> [mode |-> "Insert", ops |-> <<Op("Delete", 0)>>]
           [] k.name = "Escape" -> [mode |-> "Normal", ops |-> << >>]
           [] OTHER -> [mode |-> "Insert", ops |-> << >>]
    ELSE IF ~k.super THEN [mode |-> "Insert", ops |-> <<Op("Insert", k.s)>>]
    ELSE IF k.s[1] = "w" THEN [mode |-> "Insert", ops |-> <<Op("Exit", 0)>>]
    ELSE [mode |-> "Insert", ops |-> << >>]

PaneNormalKey(k) ==
    IF k.kind = "Named"
    THEN CASE k.name = "ArrowLeft" -> [mode |-> "Normal", ops |-> <<Op("MoveHorizontal", -1)>>]
           [] k.name = "ArrowRight" -> [mode |-> "Normal", ops |-> <<Op("MoveHorizontal", 1)>>]
           [] k.name = "ArrowUp" -> [mode |-> "Normal", ops |-> <<Op("MoveVertical", -1)>>]
           [] k.name = "ArrowDown" -> [mode |-> "Normal", ops |-> <<Op("MoveVertical", 1)>>]
           [] OTHER -> [mode |-> "Normal", ops |-> << >>]
    ELSE CASE k.s[1] = "w" -> [mode |-> "Normal",
                               ops |-> IF k.super THEN <<Op("Exit", 0)>> ELSE << >>]
           [] k.s[1] = "h" -> [mode |-> "Normal", ops |-> <<Op("MoveHorizontal", -1)>>]
           [] k.s[1] = "l" -> [mode |-> "Normal", ops |-> <<Op("MoveHorizontal", 1)>>]
           [] k.s[1] = "k" -> [mode |-> "Normal", ops |-> <<Op("MoveVertical", -1)>>]
           [] k.s[1] = "j" -> [mode |-> "Normal", ops |-> <<Op("MoveVertical", 1)>>]
           [] k.s[1] = "i" -> [mode |-> "Insert", ops |-> << >>]
           [] k.s[1] = "q" -> [mode |-> "Normal", ops |-> <<Op("Exit", 0)>>]
           [] OTHER -> [mode |-> "Normal", ops |-> << >>]

\* a variant that fills the other fields from Pane::new() instead of ..*self
PaneKeyOfNewPane(pane, k) ==
    LET r == IF pane.mode = "Normal" THEN PaneNormalKey(k) ELSE PaneInsertKey(k)
    IN  [pane |-> [PaneNew(pane.buffer_id, pane.id) EXCEPT !.mode = r.mode], ops |-> r.ops]

PaneKey(pane, k) ==
    LET r == IF pane.mode = "Normal" THEN PaneNormalKey(k) ELSE PaneInsertKey(k)
    IN  [pane |-> [pane EXCEPT !.mode = r.mode], ops |-> r.ops]

\* y and end in units of one line height
ScrollY(pane, y, end) == [pane EXCEPT !.y_offset = Min(Max(pane.y_offset + y, 0), end)]

----------------------------------------------------------------------------
(* The dispatcher thread: buffer_op_handler *)

Intent(op, active) == [op |-> op.op, arg |-> op.arg, active |-> active]

\* a variant that leaves the old main cursor in the map
SetMainCursorAdding(pane, buf, i) ==
    [pane EXCEPT !.main_cursor_start = i,
                 !.cursors = MapInsert(pane.cursors, i, Selection(i, 0)),
                 !.grapheme_col_offset = reset_grapheme_col_offset(buf.contents, i)]

SetMainCursor(pane, buf, i) ==
    [pane EXCEPT !.main_cursor_start = i,
                 !.cursors = MapInsert(MapRemove(pane.cursors, pane.main_cursor_start),
                                       i, Selection(i, 0)),
                 !.grapheme_col_offset = reset_grapheme_col_offset(buf.contents, i)]

\* a variant that keeps cursors in a list, so that a start can be there twice
AddCursorAppending(pane, start) ==
    [pane EXCEPT !.cursors = MapInsert(pane.cursors, start + Cardinality(DOMAIN pane.cursors),
                                       Selection(start, 0))]

\* a variant that makes the added cursor the main cursor
AddCursorAsMain(pane, start) ==
    [pane EXCEPT !.cursors = MapInsert(pane.cursors, start, Selection(start, 0)),
                 !.main_cursor_start = start]

AddCursor(pane, start) ==
    [pane EXCEPT !.cursors = MapInsert(pane.cursors, start, Selection(start, 0))]

Stored(op, buf_id, buffer, pane, new_buffer, new_panes, store_buffer, store_panes, io) ==
    [ok |-> TRUE, op |-> op, buf_id |-> buf_id, buffer |-> buffer, pane |-> pane, io |-> io,
     new_buffer |-> new_buffer,
     new_panes |-> new_panes, store_buffer |-> store_buffer, store_panes |-> store_panes]

\* one arm of the match on buf_op, up to the values it is about to store; bufs and ps
\* are the snapshots it loads, d the file and io the outcome of the I/O of a Save
ApplyIntent(bufs, ps, intent, d, io) ==
    LET active == intent.active
        buf_id == ps[active[1] + 1].buffer_id
        buffer == bufs[buf_id + 1]
        involved == InvolvedPanes(ps, buf_id)
        pane == ps[active[1] + 1]
        edit(r) == IF r.ok THEN Stored(intent.op, buf_id, buffer, pane, r.buf, r.panes, TRUE, TRUE, io)
                   ELSE r
    IN  CASE intent.op = "Delete" -> edit(BackdeleteCursor(buffer, involved, active))
          [] intent.op = "Insert" -> edit(Insert(buffer, intent.arg, involved, active))
          [] intent.op = "MoveHorizontal" ->
                 edit(MoveHorizontal(buffer, intent.arg, involved, active))
          [] intent.op = "MoveVertical" ->
                 edit(MoveVertical(buffer, intent.arg, involved, active))
          [] intent.op = "Save" ->
                 \* buffer.file.as_ref().unwrap()
                 IF ~buffer.file.some THEN Panic("unwrap on None")
                 ELSE LET w == Write(buffer, buffer.file.filename, d, io)
                      IN  IF w.ok THEN Stored("Save", buf_id, buffer, pane, w.buf, << >>, TRUE, FALSE, io)
                          ELSE Stored("Save", buf_id, buffer, pane, buffer, << >>, FALSE, FALSE, io)
          [] intent.op = "SetMainCursor" ->
                 IF ~ResetOk(buffer.contents, intent.arg) THEN Panic("rope offset")
                 ELSE Stored("SetMainCursor", buf_id, buffer, pane, buffer,
                             <<SetMainCursor(pane, buffer, intent.arg)>>, FALSE, TRUE, io)
          [] intent.op = "AddCursor" ->
                 Stored("AddCursor", buf_id, buffer, pane, buffer,
                        <<AddCursor(pane, intent.arg)>>, FALSE, TRUE, io)

\* the fold of the transformations over the initial state, in queue order
FoldStep(f, intent, d, io) ==
    IF ~f.ok THEN f
    ELSE LET r == ApplyIntent(f.buffers, f.panes, intent, d, io)
         IN  IF ~r.ok THEN r
             ELSE [ok |-> TRUE,
                   buffers |-> IF r.store_buffer THEN Store(f.buffers, r.buf_id, r.new_buffer)
                               ELSE f.buffers,
                   panes |-> IF r.store_panes THEN StoreAll(f.panes, r.new_panes)
                             ELSE f.panes,
                   applied |-> f.applied + 1]

\* recv() returns an intent; the matching arm loads its snapshots and computes
DispatchApply ==
    /\ d_pc = "recv"
    /\ queue # << >>
    /\ LET intent == Head(queue)
       IN  \E io \in IF intent.op = "Save" /\ buffers[1].file.some
                     THEN IoOutcomes(buffers[1], disk) ELSE {[kind |-> "ok"]} :
             LET r == ApplyIntent(buffers, panes, intent, disk, io)
             IN  /\ d_local' = r
                 /\ d_pc' = IF ~r.ok THEN "panicked"
                            ELSE IF r.store_panes THEN "store_panes"
                            ELSE IF r.store_buffer THEN "store_buffer"
                            ELSE "notify"
                 /\ disk' = IF intent.op = "Save" /\ buffers[1].file.some
                            THEN WriteDisk(buffers[1], disk, io) ELSE disk
                 /\ fold' = FoldStep(fold, intent, disk, io)
    /\ queue' = Tail(queue)
    /\ UNCHANGED <<buffers, panes, tx_alive, render_q, ui_pc, ui_pane, ui_events,
                   glyph_pos_cache, hist, stores, slvars, debug_build, fmt>>

\* panes.store_all(new_panes), or panes.store(pane.id, ...)
DispatchStorePanes ==
    /\ d_pc = "store_panes"
    /\ panes' = StoreAll(panes, d_local.new_panes)
    /\ stores' = stores \cup {[by |-> "dispatcher", list |-> "panes"]}
    /\ d_pc' = IF d_local.store_buffer THEN "store_buffer" ELSE "notify"
    /\ UNCHANGED <<buffers, queue, tx_alive, render_q, d_local, ui_pc, ui_pane, ui_events,
                   glyph_pos_cache, disk, hist, fold, slvars, debug_build, fmt>>

\* buffers.store(buf_id, new_buffer)
DispatchStoreBuffer ==
    /\ d_pc = "store_buffer"
    /\ buffers' = Store(buffers, d_local.buf_id, d_local.new_buffer)
    /\ stores' = stores \cup {[by |-> "dispatcher", list |-> "buffers"]}
    /\ d_pc' = "notify"
    /\ UNCHANGED <<panes, queue, tx_alive, render_q, d_local, ui_pc, ui_pane, ui_events,
                   glyph_pos_cache, disk, hist, fold, slvars, debug_build, fmt>>

\* a variant that unwraps the result of the send
DispatchNotifyUnwrap ==
    /\ d_pc = "notify"
    /\ render_q' = IF tx_alive THEN Append(render_q, [event |-> "BufferRequestedRedraw",
                                                      buf_id |-> d_local.buf_id])
                   ELSE render_q
    /\ d_pc' = IF tx_alive THEN "recv" ELSE "panicked"
    /\ UNCHANGED <<buffers, panes, queue, tx_alive, d_local, ui_pc, ui_pane, ui_events,
                   glyph_pos_cache, disk, hist, fold, stores, slvars, debug_build, fmt>>

\* render_tx.send(BufferRequestedRedraw(buf_id)); the send fails once App has been
\* dropped with render_rx
DispatchNotify ==
    /\ d_pc = "notify"
    /\ render_q' = IF tx_alive THEN Append(render_q, [event |-> "BufferRequestedRedraw",
                                                      buf_id |-> d_local.buf_id])
                   ELSE render_q
    /\ d_pc' = "recv"
    /\ UNCHANGED <<buffers, panes, queue, tx_alive, d_local, ui_pc, ui_pane, ui_events,
                   glyph_pos_cache, disk, hist, fold, stores, slvars, debug_build, fmt>>

\* recv() returns Err: every sender is gone and the queue is drained
DispatchExit ==
    /\ d_pc = "recv"
    /\ queue = << >>
    /\ ~tx_alive
    /\ d_pc' = "done"
    /\ UNCHANGED <<buffers, panes, queue, tx_alive, render_q, d_local, ui_pc, ui_pane,
                   ui_events, glyph_pos_cache, disk, hist, fold, stores, slvars, debug_build, fmt>>

----------------------------------------------------------------------------
(* The UI thread: App::window_event and App::proxy_wake_up *)

\* Layout { pane_id: 0 }
LayoutPaneId == 0

KeysPressed ==
    {Named("ArrowLeft"), Named("ArrowRight"), Named("ArrowUp"), Named("ArrowDown"),
     Named("Enter"), Named("Backspace"), Named("Escape"),
     Character(<<"i">>, FALSE), Character(<<"x">>, FALSE), Character(Wide, FALSE)}

\* the keys of the glyph position cache: pos_cache.insert(i + start_index, ...) for the
\* i-th grapheme drawn, the view starting at the first line and holding every line
GlyphKeys(buf) == {i + 0 : i \in 0..(GraphemeCount(buf.contents) - 1)}

\* buffer_tx.send(..).unwrap() panics once the dispatcher thread has dropped buffer_rx
ReceiverGone == d_pc \in {"panicked", "done"}

UIReady == ui_pc = "idle" /\ tx_alive /\ ui_events < MaxEvents

UIPanics ==
    /\ ui_pc' = "panicked"
    /\ tx_alive' = FALSE
    /\ UNCHANGED <<queue, ui_pane>>

\* WindowEvent::KeyboardInput, up to the sends
UIKey(k) ==
    /\ UIReady
    /\ LET pane == panes[LayoutPaneId + 1]
           r == PaneKey(pane, k)
       IN  IF r.ops # << >> /\ ReceiverGone THEN UIPanics
           ELSE /\ queue' = queue \o [i \in 1..Len(r.ops) |-> Intent(r.ops[i], <<r.pane.id>>)]
                /\ ui_pane' = r.pane
                /\ ui_pc' = "store"
                /\ UNCHANGED tx_alive
    /\ ui_events' = ui_events + 1
    /\ UNCHANGED <<buffers, panes, render_q, d_pc, d_local, glyph_pos_cache, disk, hist,
                   fold, stores, slvars, debug_build, fmt>>

\* WindowEvent::MouseWheel, up to the store; (num_lines - 1) overflows on an empty
\* buffer, which panics in a debug build and wraps to an end beyond every offset
\* in a release build
UIScroll(y) ==
    /\ UIReady
    /\ LET raw_buffer == buffers[1]
           pane == panes[LayoutPaneId + 1]
           wraps == NumLines(raw_buffer) = 0
           end == IF wraps THEN pane.y_offset + Abs(y) ELSE NumLines(raw_buffer) - 1
       IN  IF wraps /\ debug_build THEN UIPanics
           ELSE /\ ui_pane' = ScrollY(pane, y, end)
                /\ ui_pc' = "store"
                /\ UNCHANGED <<queue, tx_alive>>
    /\ ui_events' = ui_events + 1
    /\ UNCHANGED <<buffers, panes, render_q, d_pc, d_local, glyph_pos_cache, disk, hist,
                   fold, stores, slvars, debug_build, fmt>>

\* self.panes.store(new_pane.id, new_pane) of the two handlers above
UIStore ==
    /\ ui_pc = "store"
    /\ panes' = Store(panes, ui_pane.id, ui_pane)
    /\ stores' = stores \cup {[by |-> "ui", list |-> "panes"]}
    /\ ui_pc' = "idle"
    /\ UNCHANGED <<buffers, queue, tx_alive, render_q, d_pc, d_local, ui_pane, ui_events,
                   glyph_pos_cache, disk, hist, fold, slvars, debug_build, fmt>>

UISend(op) ==
    IF ReceiverGone THEN UIPanics
    ELSE /\ queue' = Append(queue, Intent(op, <<LayoutPaneId>>))
         /\ UNCHANGED <<tx_alive, ui_pc, ui_pane>>

\* WindowEvent::PointerButton: the closest cached glyph, with or without alt
UIClick(i, alt) ==
    /\ UIReady
    /\ i \in glyph_pos_cache
    /\ UISend(Op(IF alt THEN "AddCursor" ELSE "SetMainCursor", i))
    /\ ui_events' = ui_events + 1
    /\ UNCHANGED <<buffers, panes, render_q, d_pc, d_local, glyph_pos_cache, disk, hist,
                   fold, stores, slvars, debug_build, fmt>>

\* super + 's'
UISave ==
    /\ UIReady
    /\ UISend(Op("Save", 0))
    /\ ui_events' = ui_events + 1
    /\ UNCHANGED <<buffers, panes, render_q, d_pc, d_local, glyph_pos_cache, disk, hist,
                   fold, stores, slvars, debug_build, fmt>>

\* WindowEvent::RedrawRequested
UIRedraw ==
    /\ ui_pc = "idle"
    /\ tx_alive
    /\ glyph_pos_cache' = GlyphKeys(buffers[1])
    /\ UNCHANGED <<buffers, panes, queue, tx_alive, render_q, d_pc, d_local, ui_pc, ui_pane,
                   ui_events, disk, hist, fold, stores, slvars, debug_build, fmt>>

\* one turn of the loop of proxy_wake_up
UIProxyWakeUp ==
    /\ ui_pc = "idle"
    /\ tx_alive
    /\ render_q # << >>
    /\ render_q' = Tail(render_q)
    /\ glyph_pos_cache' = GlyphKeys(buffers[1])
    /\ UNCHANGED <<buffers, panes, queue, tx_alive, d_pc, d_local, ui_pc, ui_pane,
                   ui_events, disk, hist, fold, stores, slvars, debug_build, fmt>>

\* WindowEvent::CloseRequested: the event loop exits and App is dropped
UIClose ==
    /\ ui_pc = "idle"
    /\ tx_alive
    /\ tx_alive' = FALSE
    /\ ui_pc' = "closed"
    /\ UNCHANGED <<buffers, panes, queue, render_q, d_pc, d_local, ui_pane, ui_events,
                   glyph_pos_cache, disk, hist, fold, stores, slvars, debug_build, fmt>>

----------------------------------------------------------------------------
(* The program: App::new, then the two threads *)

InitialFiles == {<<"a", NL>> \o Wide}

Init ==
    /\ \/ /\ disk = NoFile
          /\ buffers = Store(<< >>, 0, FromBlank)
       \/ \E c \in InitialFiles :
            /\ disk = SmallFile(c, 0)
            /\ buffers = Store(<< >>, 0, FromFilename(disk, "f").buf)
    /\ panes = Store(<< >>, 0, PaneNew(0, 0))
    /\ queue = << >>
    /\ tx_alive = TRUE
    /\ render_q = << >>
    /\ d_pc = "recv"
    /\ d_local = [ok |-> TRUE, op |-> "none"]
    /\ ui_pc = "idle"
    /\ ui_pane = [id |-> 0]
    /\ ui_events = 0
    /\ glyph_pos_cache = {}
    /\ hist = [op |-> "none"]
    /\ fold = [ok |-> TRUE, buffers |-> buffers, panes |-> panes, applied |-> 0]
    /\ stores = {}
    /\ debug_build \in BOOLEAN
    /\ fmt = FmtIdle
    /\ sl_heap = << >>
    /\ sl_ptr = 0
    /\ sl_guards = << >>

Dispatcher ==
    \/ DispatchApply
    \/ DispatchStorePanes
    \/ DispatchStoreBuffer
    \/ DispatchNotify
    \/ DispatchExit

Next ==
    \/ \E k \in KeysPressed : UIKey(k)
    \/ \E y \in {-1, 1} : UIScroll(y)
    \/ UIStore
    \/ \E i \in glyph_pos_cache, alt \in BOOLEAN : UIClick(i, alt)
    \/ UISave
    \/ UIRedraw
    \/ UIProxyWakeUp
    \/ UIClose
    \/ Dispatcher

Spec == Init /\ [][Next]_vars

\* the dispatcher thread is scheduled fairly
FairSpec == Spec /\ WF_vars(Dispatcher)

----------------------------------------------------------------------------
(* The transformations on their own: Init draws a buffer and a pane of     *)
(* cursors on grapheme boundaries, each action applies one transformation  *)
(* to them and records its inputs in hist.                                  *)

Boundaries(c) == {i \in 0..Len(c) : IsGraphemeBoundary(c, i)}

CursorSets(c) == {S \in SUBSET Boundaries(c) : S # {} /\ Cardinality(S) <= MaxCursors}

FileChoices == {None, FileInfo("f", FALSE, 0)}

SysIdle ==
    /\ queue = << >>
    /\ tx_alive = TRUE
    /\ render_q = << >>
    /\ d_pc = "recv"
    /\ d_local = [ok |-> TRUE, op |-> "none"]
    /\ ui_pc = "idle"
    /\ ui_pane = [id |-> 0]
    /\ ui_events = 0
    /\ glyph_pos_cache = {}
    /\ fold = [ok |-> FALSE]
    /\ stores = {}
    /\ debug_build \in BOOLEAN
    /\ fmt = FmtIdle

SlIdle ==
    /\ sl_heap = << >>
    /\ sl_ptr = 0
    /\ sl_guards = << >>

PureInit ==
    /\ \E c \in TextsOf(MaxGraphemes), file \in FileChoices :
           buffers = <<TextBuffer(file, c)>>
    /\ \E S \in CursorSets(buffers[1].contents), off \in SelectionOffsets,
          col \in 0..MaxGraphemes :
         \E main \in S :
           panes = <<[PaneNew(0, 0) EXCEPT
                        !.cursors = [k \in S |-> Selection(k, off)],
                        !.main_cursor_start = main,
                        !.grapheme_col_offset = col]>>
    /\ disk = [exists |-> FALSE]
    /\ hist = [op |-> "none"]
    /\ SysIdle
    /\ SlIdle

\* apply a transformation's result: a panic returns nothing
PureApply(op, arg, r) ==
    /\ hist.op = "none"
    /\ hist' = [op |-> op, arg |-> arg, buf |-> buffers[1], pane |-> panes[1], ok |-> r.ok]
    /\ buffers' = IF r.ok THEN <<r.buf>> ELSE buffers
    /\ panes' = IF r.ok THEN r.panes ELSE panes
    /\ UNCHANGED <<disk, sysvars, slvars>>

PureInsert(text) == PureApply("insert", text, Insert(buffers[1], text, panes, <<0>>))

PureBackdelete == PureApply("backdelete", 0, BackdeleteCursor(buffers[1], panes, <<0>>))

PureMoveHorizontal(n) ==
    PureApply("move_horizontal", n, MoveHorizontal(buffers[1], n, panes, <<0>>))

PureMoveVertical(n) ==
    PureApply("move_vertical", n, MoveVertical(buffers[1], n, panes, <<0>>))

PureNext ==
    \/ \E text \in InsertTexts : PureInsert(text)
    \/ PureBackdelete
    \/ \E n \in HorizontalOffsets : PureMoveHorizontal(n)
    \/ \E n \in VerticalOffsets : PureMoveVertical(n)

SpecPure == PureInit /\ [][PureNext]_vars

----------------------------------------------------------------------------
(* The dispatcher on its own: buffer_op_handler applies one intent after    *)
(* another to a freshly created pane while no other thread stores.  The     *)
(* offsets of SetMainCursor and AddCursor are keys of the glyph position    *)
(* cache of a snapshot published so far; hist.keys collects them.           *)

IntentInit ==
    /\ \/ /\ disk = NoFile
          /\ buffers = Store(<< >>, 0, FromBlank)
       \/ \E c \in InitialFiles :
            /\ disk = SmallFile(c, 0)
            /\ buffers = Store(<< >>, 0, FromFilename(disk, "f").buf)
    /\ panes = Store(<< >>, 0, PaneNew(0, 0))
    /\ hist = [op |-> "none", applied |-> 0, keys |-> GlyphKeys(buffers[1])]
    /\ SysIdle
    /\ SlIdle

\* one turn of the loop of buffer_op_handler: recv, the arm, its stores
IntentApply(op) ==
    /\ d_pc = "recv"
    /\ hist.applied < MaxIntents
    /\ LET r == ApplyIntent(buffers, panes, Intent(op, <<LayoutPaneId>>), disk, [kind |-> "ok"])
           new_panes == IF r.ok /\ r.store_panes THEN StoreAll(panes, r.new_panes) ELSE panes
           new_buffers == IF r.ok /\ r.store_buffer
                          THEN Store(buffers, r.buf_id, r.new_buffer) ELSE buffers
       IN  /\ d_local' = r
           /\ d_pc' = IF r.ok THEN "recv" ELSE "panicked"
           /\ panes' = new_panes
           /\ buffers' = new_buffers
           /\ render_q' = IF r.ok
                          THEN Append(render_q, [event |-> "BufferRequestedRedraw",
                                                 buf_id |-> r.buf_id])
                          ELSE render_q
           /\ hist' = [op |-> op.op, applied |-> hist.applied + 1,
                       keys |-> hist.keys \cup GlyphKeys(new_buffers[1])]
    /\ UNCHANGED <<disk, queue, tx_alive, ui_pc, ui_pane, ui_events,
                   glyph_pos_cache, fold, stores, debug_build, fmt, slvars>>

\* the intents the key and pointer handlers send
IntentNext ==
    \/ \E text \in InsertTexts : IntentApply(Op("Insert", text))
    \/ IntentApply(Op("Delete", 0))
    \/ \E n \in {-1, 1} : IntentApply(Op("MoveHorizontal", n))
    \/ \E n \in {-1, 1} : IntentApply(Op("MoveVertical", n))
    \/ \E i \in hist.keys : IntentApply(Op("SetMainCursor", i))
    \/ \E i \in hist.keys : IntentApply(Op("AddCursor", i))

SpecIntents == IntentInit /\ [][IntentNext]_vars

----------------------------------------------------------------------------
(* Cursor movements in sequence: Init draws a buffer and a pane whose       *)
(* grapheme_col_offset is the column of its main cursor; one movement of    *)
(* any kind, a click or a Backspace, then a step of one line up or down and *)
(* the step back, or the same alt-click again.                              *)

MovesInit ==
    /\ PureInit
    /\ ~buffers[1].file.some
    /\ panes[1].grapheme_col_offset =
           reset_grapheme_col_offset(buffers[1].contents, panes[1].main_cursor_start)

MovesApply(op, arg, r, back) ==
    /\ hist' = [op |-> op, arg |-> arg, buf |-> buffers[1], pane |-> panes[1], ok |-> r.ok,
                step |-> IF hist.op = "none" THEN 1 ELSE hist.step + 1, back |-> back,
                origin |-> IF back THEN hist.pane ELSE panes[1]]
    /\ buffers' = IF r.ok THEN <<r.buf>> ELSE buffers
    /\ panes' = IF r.ok THEN r.panes ELSE panes
    /\ UNCHANGED <<disk, sysvars, slvars>>

\* Backspace
MovesBackdelete ==
    /\ hist.op = "none"
    /\ MovesApply("backdelete", 0, BackdeleteCursor(buffers[1], panes, <<0>>), FALSE)

\* typing or pasting a text
MovesInsert(text) ==
    /\ hist.op = "none"
    /\ MovesApply("insert", text, Insert(buffers[1], text, panes, <<0>>), FALSE)

MovesHorizontal(n) ==
    /\ hist.op = "none"
    /\ MovesApply("move_horizontal", n, MoveHorizontal(buffers[1], n, panes, <<0>>), FALSE)

MovesVertical(n) ==
    /\ hist.op = "none"
    /\ MovesApply("move_vertical", n, MoveVertical(buffers[1], n, panes, <<0>>), FALSE)

\* ArrowUp or ArrowDown after the first movement
MovesVerticalStep(n) ==
    /\ hist.op # "none"
    /\ hist.ok
    /\ hist.step = 1
    /\ MovesApply("move_vertical", n, MoveVertical(buffers[1], n, panes, <<0>>), FALSE)

\* the opposite arrow key
MovesVerticalBack ==
    /\ hist.op = "move_vertical"
    /\ hist.ok
    /\ ~hist.back
    /\ MovesApply("move_vertical", -hist.arg,
                  MoveVertical(buffers[1], -hist.arg, panes, <<0>>), TRUE)

\* the SetMainCursor or AddCursor arm of buffer_op_handler with its panes.store
CursorIntent(op, i) ==
    LET r == ApplyIntent(buffers, panes, Intent(Op(op, i), <<LayoutPaneId>>), disk,
                         [kind |-> "ok"])
    IN  IF r.ok THEN Ok(r.new_buffer, StoreAll(panes, r.new_panes)) ELSE r

\* a click: any offset a glyph of this or an earlier text may have had
MovesSetMainCursor(i) ==
    /\ hist.op = "none"
    /\ MovesApply("SetMainCursor", i, CursorIntent("SetMainCursor", i), FALSE)

\* an alt-click
MovesAddCursor(i) ==
    /\ hist.op = "none"
    /\ MovesApply("AddCursor", i, CursorIntent("AddCursor", i), FALSE)

\* a second alt-click on the same glyph
MovesAddCursorAgain ==
    /\ hist.op = "AddCursor"
    /\ hist.ok
    /\ ~hist.back
    /\ MovesApply("AddCursor", hist.arg, CursorIntent("AddCursor", hist.arg), TRUE)

MovesNext ==
    \/ \E n \in HorizontalOffsets : MovesHorizontal(n)
    \/ \E n \in VerticalOffsets : MovesVertical(n)
    \/ \E n \in {-1, 1} : MovesVerticalStep(n)
    \/ MovesVerticalBack
    \/ \E i \in 0..(ByteLen(buffers[1].contents) + 1) : MovesSetMainCursor(i)
    \/ \E i \in 0..(ByteLen(buffers[1].contents) + 1) : MovesAddCursor(i)
    \/ MovesAddCursorAgain
    \/ MovesBackdelete
    \/ \E text \in InsertTexts : MovesInsert(text)

SpecMoves == MovesInit /\ [][MovesNext]_vars

----------------------------------------------------------------------------
(* The adaptor on its own: Init draws what the closure returns for each of  *)
(* up to MaxGraphemes items; the action is one call of next(), also after   *)
(* the adaptor has returned None.                                           *)

RECURSIVE OutcomesOf(_)
OutcomesOf(n) ==
    IF n = 0 THEN {<< >>}
    ELSE LET shorter == OutcomesOf(n - 1)
         IN  shorter \cup {Append(s, o) : s \in shorter, o \in FMTOption}

FmtInit ==
    /\ \E items \in OutcomesOf(MaxGraphemes) : fmt = FilterMapTerminateNew(items)
    /\ buffers = <<FromBlank>>
    /\ panes = <<PaneNew(0, 0)>>
    /\ disk = [exists |-> FALSE]
    /\ hist = [op |-> "none"]
    /\ queue = << >>
    /\ tx_alive = TRUE
    /\ render_q = << >>
    /\ d_pc = "recv"
    /\ d_local = [ok |-> TRUE, op |-> "none"]
    /\ ui_pc = "idle"
    /\ ui_pane = [id |-> 0]
    /\ ui_events = 0
    /\ glyph_pos_cache = {}
    /\ fold = [ok |-> FALSE]
    /\ stores = {}
    /\ debug_build \in BOOLEAN
    /\ SlIdle

\* the consumer calls next(); it may go on calling after a None
FmtNext ==
    /\ fmt.nexts < Len(fmt.items) + 2
    /\ fmt' = [FilterMapTerminateNext(fmt) EXCEPT !.nexts = @ + 1]
    /\ UNCHANGED <<buffers, panes, disk, hist, queue, tx_alive, render_q, d_pc, d_local,
                   ui_pc, ui_pane, ui_events, glyph_pos_cache, fold, stores, debug_build,
                   slvars>>

SpecFmt == FmtInit /\ [][FmtNext]_vars

----------------------------------------------------------------------------
(* Key presses on their own: Init draws a pane in Normal mode, as Pane::new *)
(* makes it, with any cursors on the text; an action is one call of key()   *)
(* with a key and the state of the super modifier, its pane kept.           *)

\* Key::Unidentified or Key::Dead: neither Named nor Character
Unidentified == [kind |-> "Unidentified", super |-> FALSE]

KeyChoices ==
    KeysPressed \cup
    {Named("Space"), Named("Tab"),
     Character(<<"w">>, FALSE), Character(<<"w">>, TRUE), Character(<<"q">>, FALSE),
     Character(<<"h">>, FALSE), Character(<<"j">>, FALSE), Character(<<"k">>, FALSE),
     Character(<<"l">>, FALSE), Character(<<"i">>, TRUE), Character(<<"x">>, TRUE),
     Unidentified}

KeysInit ==
    /\ \E c \in {<< >>} \cup InitialFiles : buffers = <<TextBuffer(None, c)>>
    /\ \E S \in CursorSets(buffers[1].contents), y_offset \in {0, 1} :
         \E main \in S :
           panes = <<[PaneNew(0, 0) EXCEPT
                        !.cursors = [k \in S |-> Selection(k, 0)],
                        !.main_cursor_start = main,
                        !.y_offset = y_offset,
                        !.grapheme_col_offset =
                            reset_grapheme_col_offset(buffers[1].contents, main)]>>
    /\ disk = [exists |-> FALSE]
    /\ hist = [op |-> "none", ok |-> TRUE, n |-> 0]
    /\ SysIdle
    /\ SlIdle

\* pane.key(key, mods); the `_ => unreachable!()` arms of insert and normal panic
KeyPress(k) ==
    /\ hist.ok
    /\ hist.n < MaxEvents
    /\ IF k.kind \in {"Named", "Character"}
       THEN LET r == PaneKey(panes[1], k)
            IN  /\ panes' = <<r.pane>>
                /\ hist' = [op |-> "key", key |-> k, pane |-> panes[1], ok |-> TRUE,
                            ops |-> r.ops, n |-> hist.n + 1]
       ELSE /\ panes' = panes
            /\ hist' = [op |-> "key", key |-> k, pane |-> panes[1], ok |-> FALSE,
                        ops |-> << >>, n |-> hist.n + 1]
    /\ UNCHANGED <<buffers, disk, sysvars, slvars>>

KeysNext == \E k \in KeyChoices : KeyPress(k)

SpecKeys == KeysInit /\ [][KeysNext]_vars

----------------------------------------------------------------------------
(* The transformations as their callers may call them: Init draws a buffer, *)
(* with or without a file, and a list of up to two panes; an action calls   *)
(* one transformation with that list and any list of active pane ids, or    *)
(* has the dispatcher apply the intent with that list published.            *)

\* graphemes(): the byte slice cut at its grapheme boundaries
RECURSIVE GraphemesOf(_)
GraphemesOf(c) ==
    IF Len(c) = 0 THEN << >>
    ELSE LET n == IF Len(c) >= 2 /\ c[2] = Cont THEN 2 ELSE 1
         IN  <<SubSeq(c, 1, n)>> \o GraphemesOf(SubSeq(c, n + 1, Len(c)))

\* the slice stops one byte short, before the last line's terminator
NowrapLinesWithoutLast(buf, start, end) ==
    LET c == buf.contents
        byte_len == ByteOfLine(c, start)
        byte_len2 == Max(ByteOfLine(c, end) - 1, byte_len)
    IN  [ok |-> TRUE, gs |-> GraphemesOf(ByteSlice(c, byte_len, byte_len2)),
         start_index |-> byte_len]

\* nowrap_lines: byte_of_line panics past line_len, byte_slice on a reversed range
NowrapLines(buf, start, end) ==
    LET c == buf.contents
    IN  IF start > LineLen(c) \/ end > LineLen(c) THEN Panic("rope offset")
        ELSE LET byte_len == ByteOfLine(c, start)
                 byte_len2 == ByteOfLine(c, end)
             IN  IF byte_len > byte_len2 THEN Panic("rope offset")
                 ELSE [ok |-> TRUE,
                       gs |-> GraphemesOf(ByteSlice(c, byte_len, byte_len2)),
                       start_index |-> byte_len]

ActiveChoices == {<< >>, <<0>>, <<1>>, <<0, 1>>}

CallFiles == {None, FileInfo("f", FALSE, 0), FileInfo("f", TRUE, 0)}

\* Pane::new(buffer_id, pane_id), the cursor at 0 or moved to the end of the text
CallPane(buffer_id, pane_id, c, start, y_offset) ==
    [PaneNew(buffer_id, pane_id) EXCEPT
        !.cursors = MapInsert(EmptyMap, start, Selection(start, 0)),
        !.main_cursor_start = start,
        !.y_offset = y_offset,
        !.grapheme_col_offset = reset_grapheme_col_offset(c, start)]

CallsInit ==
    /\ \E c \in TextsOf(MaxGraphemes), file \in CallFiles :
           buffers = <<TextBuffer(file, c)>>
    /\ \E n \in 0..2 :
         \E ids \in [1..n -> {0, 1}], start \in {0, ByteLen(buffers[1].contents)},
            y_offset \in {0, 1} :
           panes = [i \in 1..n |->
                       CallPane(ids[i], i - 1, buffers[1].contents, start, y_offset)]
    /\ disk = [exists |-> FALSE]
    /\ hist = [op |-> "none"]
    /\ SysIdle
    /\ SlIdle

CallApply(op, arg, active, r, by) ==
    /\ hist.op = "none"
    /\ hist' = [op |-> op, arg |-> arg, active |-> active, buf |-> buffers[1],
                panes |-> panes, ok |-> r.ok, by |-> by,
                why |-> IF r.ok THEN "" ELSE r.why]
    /\ buffers' = IF r.ok THEN <<r.buf>> ELSE buffers
    /\ panes' = IF r.ok THEN r.panes ELSE panes
    /\ UNCHANGED <<disk, sysvars, slvars>>

CallInsert(text, active) ==
    CallApply("insert", text, active, Insert(buffers[1], text, panes, active), "caller")

CallBackdelete(active) ==
    CallApply("backdelete", 0, active, BackdeleteCursor(buffers[1], panes, active), "caller")

CallMoveHorizontal(n, active) ==
    CallApply("move_horizontal", n, active, MoveHorizontal(buffers[1], n, panes, active),
              "caller")

CallMoveVertical(n, active) ==
    CallApply("move_vertical", n, active, MoveVertical(buffers[1], n, panes, active),
              "caller")

\* one turn of buffer_op_handler with every pane on the one buffer: the arm passes
\* involved_panes(buf_id) and the intent's active pane ids
CallDispatch(op, i) ==
    /\ i < Len(panes)
    /\ \A k \in 1..Len(panes) : panes[k].buffer_id = 0
    /\ LET r == ApplyIntent(buffers, panes, Intent(op, <<i>>), disk, [kind |-> "ok"])
       IN  CallApply(op.op, op.arg, <<i>>,
                     IF r.ok THEN Ok(r.new_buffer, StoreAll(panes, r.new_panes)) ELSE r,
                     "dispatcher")

\* the renderer's call: the lines of the buffer from start up to, not including, end
CallNowrapLines(start, end) ==
    /\ hist.op = "none"
    /\ LET r == NowrapLines(buffers[1], start, end)
       IN  hist' = [op |-> "nowrap_lines", arg |-> <<start, end>>, buf |-> buffers[1],
                    ok |-> r.ok, by |-> "renderer",
                    gs |-> IF r.ok THEN r.gs ELSE << >>,
                    start_index |-> IF r.ok THEN r.start_index ELSE 0]
    /\ UNCHANGED <<buffers, panes, disk, sysvars, slvars>>

CallsNext ==
    \/ \E text \in InsertTexts, active \in ActiveChoices : CallInsert(text, active)
    \/ \E active \in ActiveChoices : CallBackdelete(active)
    \/ \E n \in {-1, 1}, active \in ActiveChoices : CallMoveHorizontal(n, active)
    \/ \E n \in {-1, 1}, active \in ActiveChoices : CallMoveVertical(n, active)
    \/ \E i \in {0, 1} :
         \/ \E text \in InsertTexts : CallDispatch(Op("Insert", text), i)
         \/ CallDispatch(Op("Delete", 0), i)
         \/ \E n \in {-1, 1} : CallDispatch(Op("MoveHorizontal", n), i)
         \/ \E n \in {-1, 1} : CallDispatch(Op("MoveVertical", n), i)
    \/ \E start, end \in 0..(NumLines(buffers[1]) + 1) : CallNowrapLines(start, end)

SpecCalls == CallsInit /\ [][CallsNext]_vars

----------------------------------------------------------------------------
(* The dispatcher draining its channel: Init is the program with the        *)
(* intents of up to MaxEvents key presses waiting in the channel before the *)
(* dispatcher thread has run, App alive or already dropped (and with it     *)
(* buffer_tx and render_rx); the dispatcher thread is the only one to act.  *)

\* what Enter-less typing, Backspace, the arrows and super+s send
QueuedOps ==
    <<Op("Insert", <<"x">>), Op("Delete", 0), Op("MoveHorizontal", -1),
      Op("MoveVertical", 1), Op("Save", 0)>>

\* the queues of up to n intents, each intent by its place in QueuedOps
RECURSIVE QueuesOf(_)
QueuesOf(n) ==
    IF n = 0 THEN {<< >>}
    ELSE LET shorter == QueuesOf(n - 1)
         IN  shorter \cup {Append(q, k) : q \in shorter, k \in 1..Len(QueuedOps)}

QueueInit ==
    /\ \/ /\ disk = NoFile
          /\ buffers = Store(<< >>, 0, FromBlank)
       \/ \E c \in InitialFiles :
            /\ disk = SmallFile(c, 0)
            /\ buffers = Store(<< >>, 0, FromFilename(disk, "f").buf)
    /\ panes = Store(<< >>, 0, PaneNew(0, 0))
    /\ \E q \in QueuesOf(MaxEvents) :
         queue = [i \in 1..Len(q) |-> Intent(QueuedOps[q[i]], <<LayoutPaneId>>)]
    /\ tx_alive \in BOOLEAN
    /\ render_q = << >>
    /\ d_pc = "recv"
    /\ d_local = [ok |-> TRUE, op |-> "none"]
    /\ ui_pc = IF tx_alive THEN "idle" ELSE "closed"
    /\ ui_pane = [id |-> 0]
    /\ ui_events = Len(queue)
    /\ glyph_pos_cache = {}
    /\ hist = [op |-> "none", queued |-> Len(queue)]
    /\ fold = [ok |-> TRUE, buffers |-> buffers, panes |-> panes, applied |-> 0]
    /\ stores = {}
    /\ debug_build \in BOOLEAN
    /\ fmt = FmtIdle
    /\ SlIdle

SpecQueue == QueueInit /\ [][Dispatcher]_vars

----------------------------------------------------------------------------
(* Files on their own: Init draws a file and a buffer, the actions write    *)
(* the buffer to the file, open the file, and have the dispatcher apply     *)
(* Save intents.                                                            *)

FileSizes == {Size(2, Gib - 1), three_gb, Size(3, 1)}

FilesOnDisk ==
    {NoFile}
        \cup {SmallFile(c, 0) : c \in TextsOf(MaxGraphemes)}
        \cup {SmallFile(<<Cont>>, 0)}
        \cup {File(size, << >>, 0) : size \in FileSizes}

ContentsKept(d) == d.exists /\ d.size.hi = 0

FileInit ==
    /\ disk \in FilesOnDisk
    /\ \E c \in TextsOf(MaxGraphemes), file \in FileChoices \cup {FileInfo("f", TRUE, 0)} :
           buffers = <<TextBuffer(file, c)>>
    /\ panes = <<PaneNew(0, 0)>>
    /\ hist = [op |-> "none"]
    /\ SysIdle
    /\ SlIdle

\* write(&buffer, "f") with any outcome of the I/O
FileWrite ==
    /\ hist.op = "none"
    /\ ~disk.exists \/ ContentsKept(disk)
    /\ \E io \in IoOutcomes(buffers[1], disk) :
         LET r == Write(buffers[1], "f", disk, io)
         IN  /\ hist' = [op |-> "write", buf |-> buffers[1], disk |-> disk, io |-> io,
                         ok |-> r.ok]
             /\ buffers' = IF r.ok THEN <<r.buf>> ELSE buffers
             /\ disk' = WriteDisk(buffers[1], disk, io)
    /\ UNCHANGED <<panes, sysvars, slvars>>

\* from_filename("f"), on its own or after a write
FileOpen ==
    /\ hist.op \in {"none", "write"}
    /\ LET r == FromFilename(disk, "f")
       IN  /\ hist' = [op |-> "open", disk |-> disk, ok |-> r.ok, read |-> r.read,
                       written |-> IF hist.op = "write" /\ hist.ok
                                   THEN <<hist.buf.contents>> ELSE << >>]
           /\ buffers' = IF r.ok THEN <<r.buf>> ELSE << >>
    /\ UNCHANGED <<panes, disk, sysvars, slvars>>

\* one turn of the loop of buffer_op_handler for a Save intent: recv, the Save arm with
\* any outcome of the I/O, the redraw notice; the user saves, and once more if that failed
FileSave ==
    /\ d_pc = "recv"
    /\ hist.op \in {"none", "save"}
    /\ hist.op = "save" => hist.before = "none" /\ d_local.io.kind # "ok"
    /\ ~disk.exists \/ ContentsKept(disk)
    /\ \E io \in IF buffers[1].file.some THEN IoOutcomes(buffers[1], disk) ELSE {[kind |-> "ok"]} :
         LET r == ApplyIntent(buffers, panes, Intent(Op("Save", 0), <<LayoutPaneId>>), disk, io)
         IN  /\ d_local' = r
             /\ d_pc' = IF r.ok THEN "recv" ELSE "panicked"
             /\ buffers' = IF r.ok /\ r.store_buffer
                           THEN Store(buffers, r.buf_id, r.new_buffer) ELSE buffers
             /\ disk' = IF buffers[1].file.some THEN WriteDisk(buffers[1], disk, io) ELSE disk
             /\ render_q' = IF r.ok
                            THEN Append(render_q, [event |-> "BufferRequestedRedraw",
                                                   buf_id |-> r.buf_id])
                            ELSE render_q
             /\ hist' = [op |-> "save", ok |-> r.ok,
                         before |-> IF hist.op = "save" THEN d_local.io.kind ELSE "none"]
    /\ UNCHANGED <<panes, queue, tx_alive, ui_pc, ui_pane, ui_events, glyph_pos_cache,
                   fold, stores, debug_build, fmt, slvars>>

FileNext ==
    \/ FileWrite
    \/ FileOpen
    \/ FileSave

SpecFile == FileInit /\ [][FileNext]_vars

----------------------------------------------------------------------------
(* SyncList on its own: the ArcSwap pointer, the lists it has pointed to,  *)
(* and readers that hold the Guard they loaded.                            *)

Readers == {"renderer", "hit_test"}
Items == {1, 2}

\* a variant that writes into the list the pointer refers to
SyncStoreInPlace(heap, ptr, index, v) ==
    [heap |-> [heap EXCEPT ![ptr] = Store(heap[ptr], index, v)], ptr |-> ptr]

\* store: copy the loaded list, change the copy, swap the pointer to it
SyncStore(heap, ptr, index, v) ==
    [heap |-> Append(heap, Store(heap[ptr], index, v)), ptr |-> Len(heap) + 1]

NoGuard == [held |-> FALSE]

SyncInit ==
    /\ sl_heap = << << >> >>
    /\ sl_ptr = 1
    /\ sl_guards = [r \in Readers |-> NoGuard]
    /\ buffers = <<FromBlank>>
    /\ panes = <<PaneNew(0, 0)>>
    /\ disk = NoFile
    /\ hist = [op |-> "none"]
    /\ SysIdle

\* the writer: store(index, v)
SlStore(index, v) ==
    /\ Len(sl_heap) < MaxAllocs
    /\ index <= Len(sl_heap[sl_ptr])
    /\ LET r == SyncStore(sl_heap, sl_ptr, index, v)
       IN  /\ sl_heap' = r.heap
           /\ sl_ptr' = r.ptr
    /\ UNCHANGED <<sl_guards, buffers, panes, disk, hist, sysvars>>

\* a reader: get(), keeping the Guard; seen is what it read through it
SlGet(r) ==
    /\ sl_guards' = [sl_guards EXCEPT ![r] = [held |-> TRUE, addr |-> sl_ptr,
                                              seen |-> sl_heap[sl_ptr]]]
    /\ UNCHANGED <<sl_heap, sl_ptr, buffers, panes, disk, hist, sysvars>>

\* a reader drops its Guard
SlDrop(r) ==
    /\ sl_guards[r].held
    /\ sl_guards' = [sl_guards EXCEPT ![r] = NoGuard]
    /\ UNCHANGED <<sl_heap, sl_ptr, buffers, panes, disk, hist, sysvars>>

SyncNext ==
    \/ \E index \in 0..MaxAllocs, v \in Items : SlStore(index, v)
    \/ \E r \in Readers : SlGet(r)
    \/ \E r \in Readers : SlDrop(r)

SpecSync == SyncInit /\ [][SyncNext]_vars

----------------------------------------------------------------------------
(* Claims about the transformations *)

\* the byte offsets of the input pane's cursors, ascending
OldStarts == SortedSeq(DOMAIN hist.pane.cursors)

\* original[0:c0] + t + original[c0:c1] + t + ... + original[ck:]
RECURSIVE Spliced(_, _, _, _)
Spliced(orig, cs, t, i) ==
    IF i > Len(cs) THEN SubSeq(orig, (IF Len(cs) = 0 THEN 0 ELSE cs[Len(cs)]) + 1, Len(orig))
    ELSE SubSeq(orig, (IF i = 1 THEN 0 ELSE cs[i - 1]) + 1, cs[i]) \o t
             \o Spliced(orig, cs, t, i + 1)

AllEmptyAt(cursors, starts) ==
    /\ DOMAIN cursors = starts
    /\ \A k \in starts : cursors[k] = Selection(k, 0)

\* C1: insert(t) on cursors c0 < ... < ck yields original[0:c0] + t + original[c0:c1]
\* + t + ... + original[ck:], and the cursor of rank i ends at ci + (i+1)*len(t) with
\* offset 0, whatever the selection offsets were before.
C1_InsertSplices ==
    hist.op = "insert" =>
        /\ hist.ok
        /\ buffers[1].contents = Spliced(hist.buf.contents, OldStarts, hist.arg, 1)
        /\ AllEmptyAt(panes[1].cursors,
               {OldStarts[i] + i * Len(hist.arg) : i \in 1..Len(OldStarts)})

\* three selections of offset 1 received a two-byte text
C1_Witness ==
    /\ hist.op = "insert"
    /\ Len(hist.arg) = 2
    /\ Cardinality(DOMAIN hist.pane.cursors) = 3
    /\ \A k \in DOMAIN hist.pane.cursors : hist.pane.cursors[k].offset = 1
    /\ Cardinality(DOMAIN panes[1].cursors) = 3

\* the start of the grapheme that ends at boundary c (c itself at the start of the text)
PrecedingBoundary(orig, c) ==
    IF c = 0 THEN 0
    ELSE CHOOSE b \in Boundaries(orig) :
             b < c /\ \A b2 \in Boundaries(orig) : b2 < c => b2 <= b

\* the byte positions (1-based) of the graphemes immediately preceding the cursors
PrecedingBytes(orig, cs) ==
    UNION {(PrecedingBoundary(orig, c) + 1)..c : c \in cs}

RECURSIVE WithoutBytes(_, _, _)
WithoutBytes(orig, D, i) ==
    IF i > Len(orig) THEN << >>
    ELSE (IF i \in D THEN << >> ELSE <<orig[i]>>) \o WithoutBytes(orig, D, i + 1)

\* bytes deleted by the cursors whose original start is at most c
DeletedUpTo(orig, cs, c) ==
    SumSeq([i \in 1..Len(cs) |->
               IF cs[i] <= c THEN cs[i] - PrecedingBoundary(orig, cs[i]) ELSE 0])

\* C2: backdelete_cursor removes exactly the one grapheme immediately preceding each
\* cursor and re-anchors every cursor at its original start minus the bytes deleted by
\* the cursors whose original start is less than or equal to its own, with offset 0.
C2_BackdeleteShiftsLeft ==
    hist.op = "backdelete" =>
        /\ hist.ok
        /\ buffers[1].contents =
               WithoutBytes(hist.buf.contents,
                            PrecedingBytes(hist.buf.contents, DOMAIN hist.pane.cursors), 1)
        /\ AllEmptyAt(panes[1].cursors,
               {c - DeletedUpTo(hist.buf.contents, OldStarts, c) :
                    c \in DOMAIN hist.pane.cursors})

----------------------------------------------------------------------------
(* Claims about the running program *)

Published(pane) == buffers[pane.buffer_id + 1]

\* C3: in every reachable state main_cursor_start is a key of the pane's cursors, so the
\* "no selection matched the main cursor" assertion of the transformations never fires,
\* also when cursors merge.
C3_MainCursorIsKey ==
    /\ \A i \in 1..Len(panes) : panes[i].main_cursor_start \in DOMAIN panes[i].cursors
    /\ d_pc = "panicked" => d_local.why # "no main cursor"

\* C4: once the dispatcher has applied every queued intent, the start and the end() of
\* every selection lie within [0, byte_len] of the published buffer.
C4_SelectionsInBounds ==
    (d_pc = "recv" /\ queue = << >> /\ ui_pc = "idle") =>
        \A i \in 1..Len(panes) : \A k \in DOMAIN panes[i].cursors :
            /\ InBounds(Published(panes[i]).contents, panes[i].cursors[k].start)
            /\ InBounds(Published(panes[i]).contents, SelectionEnd(panes[i].cursors[k]))

\* C5: only the dispatcher thread publishes to the shared buffer list and the shared
\* pane list while it runs; the UI thread only loads.
C5_OnlyDispatcherPublishes == \A s \in stores : s.by = "dispatcher"

\* C6: a snapshot a reader obtained with get() before a later store is never changed by
\* that store: through its Guard the reader keeps reading what it loaded; and a store
\* is never held up by the Guards readers hold.
C6_SnapshotIsolation ==
    /\ \A r \in Readers :
           sl_guards[r].held => sl_heap[sl_guards[r].addr] = sl_guards[r].seen
    /\ Len(sl_heap) < MaxAllocs => ENABLED SlStore(0, 1)

\* a reader still holds a list that two later stores have replaced
C6_Witness ==
    \E r \in Readers :
        /\ sl_guards[r].held
        /\ sl_guards[r].seen # << >>
        /\ sl_ptr > sl_guards[r].addr + 1
        /\ sl_heap[sl_ptr] # sl_guards[r].seen

\* C7: between two intents the published buffer text and cursors are the result of
\* folding the pure transformations over the initial state in queue order.
C7_PublishedIsFold ==
    (d_pc = "recv" /\ fold.ok) =>
        /\ buffers[1].contents = fold.buffers[1].contents
        /\ panes[1].cursors = fold.panes[1].cursors

\* C8: reading the file back after a successful write yields the buffer's contents.
C8_WriteOpenRoundTrip ==
    (hist.op = "open" /\ hist.written # << >>) =>
        /\ hist.ok
        /\ buffers[1].contents = hist.written[1]

\* C9: after a Save whose write failed the published buffer is the one the intent
\* loaded, contents and file info alike, and the dispatcher is back at recv() for the
\* next intent; after a Save whose write succeeded the published buffer has the same
\* contents and is_modified = false.
C9_SaveKeepsOrCleans ==
    (d_local.ok /\ d_local.op = "Save") =>
        /\ d_pc # "panicked"
        /\ d_pc \in {"notify", "recv", "done"} =>
               LET now == buffers[d_local.buf_id + 1]
               IN  IF d_local.io.kind # "ok" THEN now = d_local.buffer
                   ELSE /\ now.contents = d_local.buffer.contents
                        /\ now.file.some
                        /\ ~now.file.is_modified

\* the write of a modified buffer failed half way, leaving the file changed, and the
\* dispatcher then applied a second Save, which succeeded
C9_Witness ==
    /\ hist.op = "save"
    /\ hist.before = "write_err"
    /\ d_pc = "recv"
    /\ d_local.ok
    /\ d_local.io.kind = "ok"
    /\ d_local.buffer.file.is_modified
    /\ d_local.buffer.contents # << >>

\* C10: from_filename on a file of 3 GiB or more fails before reading and creates no
\* buffer; a smaller file passes the size check; an opened buffer is not modified.
C10_SizeCeiling ==
    (hist.op = "open" /\ hist.disk.exists) =>
        /\ SizeGe(hist.disk.size, three_gb) => ~hist.ok /\ ~hist.read /\ buffers = << >>
        /\ ~SizeGe(hist.disk.size, three_gb) => hist.read
        /\ hist.ok => ~buffers[1].file.is_modified

\* a file of exactly 3 GiB was refused
C10_Witness ==
    /\ hist.op = "open"
    /\ hist.disk.exists
    /\ hist.disk.size = three_gb
    /\ ~hist.ok

----------------------------------------------------------------------------
(* Claims about the cursor movements *)

\* how many grapheme boundaries lie before b, and the boundary with r of them before it
BoundaryRank(c, b) == Cardinality({x \in Boundaries(c) : x < b})

BoundaryAtRank(c, r) == CHOOSE x \in Boundaries(c) : BoundaryRank(c, x) = r

\* n grapheme boundaries from boundary b (left for n < 0), stopping at 0 and byte_len
MovedBy(c, b, n) ==
    BoundaryAtRank(c, Min(Max(BoundaryRank(c, b) + n, 0), Cardinality(Boundaries(c)) - 1))

\* C11: move_horizontal(offset) with offset # 0 returns, and moves every cursor on its
\* own by |offset| grapheme boundaries towards sign(offset), stopping at 0 and at
\* byte_len; every resulting selection has offset 0 and the text is untouched.
C11_MoveHorizontalClamps ==
    (hist.op = "move_horizontal" /\ hist.arg # 0) =>
        /\ hist.ok
        /\ buffers[1] = hist.buf
        /\ AllEmptyAt(panes[1].cursors,
               {MovedBy(hist.buf.contents, k, hist.arg) : k \in DOMAIN hist.pane.cursors})
        /\ panes[1].main_cursor_start =
               MovedBy(hist.buf.contents, hist.pane.main_cursor_start, hist.arg)

\* cursors at 0 and at byte_len of a text with a two-byte grapheme moved two to the left:
\* the one at 0 stayed, the other crossed the text
C11_Witness ==
    /\ hist.op = "move_horizontal"
    /\ hist.arg = -2
    /\ hist.ok
    /\ \E i \in 1..Len(hist.buf.contents) : hist.buf.contents[i] = Lead
    /\ {0, Len(hist.buf.contents)} \subseteq DOMAIN hist.pane.cursors
    /\ 0 \in DOMAIN panes[1].cursors
    /\ Cardinality(DOMAIN panes[1].cursors) >= 2

\* where line l ends, its line terminator excluded; line num_lines is the empty line at
\* byte_len
LineEnd(c, l) ==
    IF l >= LineLen(c) THEN Len(c)
    ELSE LET next == ByteOfLine(c, l + 1)
         IN  IF next > 0 /\ c[next] = NL THEN next - 1 ELSE next

\* the place move_vertical(offset) is to put a cursor that stands at b
VerticalGoal(c, b, offset, col) ==
    LET l == Min(Max(LineOfByte(c, b) + offset, 0), LineLen(c))
        from == ByteOfLine(c, l)
    IN  MovedBy(c, from, Min(col, GraphemeCount(ByteSlice(c, from, LineEnd(c, l)))))

\* C12: move_vertical(offset) puts every cursor on line clamp(line + offset, 0, num_lines),
\* min(grapheme_col_offset, graphemes of that line without its terminator) graphemes
\* from the line's start: at the end of a line shorter than grapheme_col_offset, also of
\* a last line without a trailing newline, and never beyond it.
C12_MoveVerticalKeepsColumn ==
    hist.op = "move_vertical" =>
        /\ hist.ok
        /\ AllEmptyAt(panes[1].cursors,
               {VerticalGoal(hist.buf.contents, k, hist.arg, hist.pane.grapheme_col_offset) :
                    k \in DOMAIN hist.pane.cursors})

\* the graphemes of line l, its line terminator excluded
LineGraphemes(c, l) == GraphemeCount(ByteSlice(c, ByteOfLine(c, l), LineEnd(c, l)))

\* C13: for a pane with a single cursor, move_vertical(1) followed by move_vertical(-1)
\* returns the cursor to its original start whenever the original line and the line
\* below, both among the num_lines lines of the text, have at least grapheme_col_offset
\* graphemes.
C13_DownThenUpReturns ==
    (/\ hist.op = "move_vertical" /\ hist.back /\ hist.arg = -1
     /\ Cardinality(DOMAIN hist.origin.cursors) = 1
     /\ LET c == hist.buf.contents
            line == LineOfByte(c, hist.origin.main_cursor_start)
        IN  /\ line + 1 < NumLines(hist.buf)
            /\ LineGraphemes(c, line) >= hist.origin.grapheme_col_offset
            /\ LineGraphemes(c, line + 1) >= hist.origin.grapheme_col_offset)
    => /\ hist.ok
       /\ AllEmptyAt(panes[1].cursors, {hist.origin.main_cursor_start})
       /\ panes[1].main_cursor_start = hist.origin.main_cursor_start

\* a single cursor in column 1 or more went down a line and came back to where it was
C13_Witness ==
    /\ hist.op = "move_vertical" /\ hist.back /\ hist.arg = -1 /\ hist.ok
    /\ Cardinality(DOMAIN hist.origin.cursors) = 1
    /\ hist.origin.grapheme_col_offset >= 1
    /\ LET c == hist.buf.contents
           line == LineOfByte(c, hist.origin.main_cursor_start)
       IN  /\ line + 1 < NumLines(hist.buf)
           /\ LineGraphemes(c, line) >= hist.origin.grapheme_col_offset
           /\ LineGraphemes(c, line + 1) >= hist.origin.grapheme_col_offset
           /\ LineOfByte(c, hist.pane.main_cursor_start) = line + 1
    /\ panes[1].main_cursor_start = hist.origin.main_cursor_start

\* where the line of byte i starts: after the last newline before i
LineStartOf(c, i) ==
    IF \E j \in 1..i : c[j] = NL
    THEN CHOOSE j \in 1..i : c[j] = NL /\ \A k \in (j + 1)..i : c[k] # NL
    ELSE 0

\* C14: SetMainCursor(new_start) removes the entry keyed by main_cursor_start, inserts an
\* empty Selection at new_start, sets main_cursor_start = new_start and
\* grapheme_col_offset to the graphemes between the start of new_start's line and
\* new_start, and leaves every other cursor, the buffer, buffer_id, id and y_offset as
\* they were.
C14_SetMainCursorRekeys ==
    (hist.op = "SetMainCursor" /\ hist.ok) =>
        LET old == hist.pane
            new == panes[1]
            i == hist.arg
            c == hist.buf.contents
        IN  /\ DOMAIN new.cursors = (DOMAIN old.cursors \ {old.main_cursor_start}) \cup {i}
            /\ new.cursors[i] = Selection(i, 0)
            /\ \A k \in DOMAIN new.cursors \ {i} : new.cursors[k] = old.cursors[k]
            /\ new.main_cursor_start = i
            /\ new.grapheme_col_offset =
                   Cardinality({b \in Boundaries(c) : LineStartOf(c, i) <= b /\ b < i})
            /\ buffers[1] = hist.buf
            /\ new.buffer_id = old.buffer_id
            /\ new.id = old.id
            /\ new.y_offset = old.y_offset

\* among three cursors with selections the main one was moved to column 1 or more of a
\* later line
C14_Witness ==
    /\ hist.op = "SetMainCursor" /\ hist.ok
    /\ Cardinality(DOMAIN hist.pane.cursors) = 3
    /\ \A k \in DOMAIN hist.pane.cursors : hist.pane.cursors[k].offset = 1
    /\ hist.arg \notin DOMAIN hist.pane.cursors
    /\ LineOfByte(hist.buf.contents, hist.arg) >= 1
    /\ panes[1].grapheme_col_offset >= 1
    /\ Cardinality(DOMAIN panes[1].cursors) = 3

\* C15: AddCursor(start) with start already a key of the cursor map leaves the number of
\* cursors unchanged, and AddCursor(start) applied twice yields the pane that applying
\* it once yields.
C15_AddCursorIdempotent ==
    (hist.op = "AddCursor") =>
        /\ hist.ok
        /\ hist.arg \in DOMAIN hist.pane.cursors =>
               Cardinality(DOMAIN panes[1].cursors) = Cardinality(DOMAIN hist.pane.cursors)
        /\ hist.back => panes[1] = hist.pane

\* a cursor was added where none was, and added again
C15_Witness ==
    /\ hist.op = "AddCursor" /\ hist.ok /\ hist.back
    /\ hist.arg \notin DOMAIN hist.origin.cursors
    /\ hist.arg \in DOMAIN hist.pane.cursors
    /\ Cardinality(DOMAIN hist.pane.cursors) = Cardinality(DOMAIN hist.origin.cursors) + 1
    /\ Cardinality(DOMAIN panes[1].cursors) = Cardinality(DOMAIN hist.pane.cursors)

----------------------------------------------------------------------------
(* Claims about the dispatcher's loop *)

\* C16: when the dispatcher emits the BufferRequestedRedraw of an intent, for the
\* buffer_id of the intent's active pane, the published lists hold the pane and buffer
\* snapshots of that intent, so that a renderer loading on receipt observes its effect.
C16_RedrawAfterPublish ==
    (d_pc = "notify" /\ d_local.ok) =>
        /\ d_local.buf_id = d_local.pane.buffer_id
        /\ d_local.store_buffer => buffers[d_local.buf_id + 1] = d_local.new_buffer
        /\ d_local.store_panes =>
               \A i \in 1..Len(d_local.new_panes) :
                   panes[d_local.new_panes[i].id + 1] = d_local.new_panes[i]

\* C17: the dispatcher stops only when the intent channel is disconnected: while a sender
\* exists no intent makes the thread stop, and it ends only with every sender dropped
\* and the queue drained.
C17_StopsOnlyOnDisconnect ==
    /\ d_pc # "panicked"
    /\ d_pc = "done" => ~tx_alive /\ queue = << >>

----------------------------------------------------------------------------
(* Claims about the calls of the transformations *)

TransformationOps ==
    {"insert", "backdelete", "move_horizontal", "move_vertical",
     "Insert", "Delete", "MoveHorizontal", "MoveVertical"}

\* C18: insert, backdelete_cursor, move_horizontal and move_vertical fail by assertion,
\* returning no buffer and no panes, whenever the involved panes are not exactly one, the
\* active pane ids are not exactly one, or the active pane id is not among the involved
\* panes; so the dispatcher applies none of these intents to a buffer that two panes
\* refer to.
C18_OnePaneOrPanic ==
    hist.op \in TransformationOps =>
        LET involved == IF hist.by = "dispatcher"
                        THEN {i \in 1..Len(hist.panes) :
                                 hist.panes[i].buffer_id = hist.panes[hist.active[1] + 1].buffer_id}
                        ELSE 1..Len(hist.panes)
        IN  (\/ Cardinality(involved) # 1
             \/ Len(hist.active) # 1
             \/ \A i \in involved : hist.panes[i].id # hist.active[1])
            => /\ ~hist.ok
               /\ hist.why = "involved panes"
               /\ buffers = <<hist.buf>>
               /\ panes = hist.panes

\* the dispatcher was handed Insert for one of two panes of the same buffer and the
\* assertion stopped it
C18_Witness ==
    /\ hist.op = "Insert"
    /\ hist.by = "dispatcher"
    /\ Len(hist.panes) = 2
    /\ hist.panes[1].buffer_id = hist.panes[2].buffer_id
    /\ ~hist.ok
    /\ hist.why = "involved panes"

\* C19: insert returns a buffer whose file.is_modified is true, filename and file_time
\* unchanged, whenever the input buffer has a file, and whose file is None whenever the
\* input buffer has none.
C19_InsertMarksModified ==
    (hist.op = "insert" /\ hist.ok) =>
        IF hist.buf.file.some
        THEN /\ buffers[1].file.some
             /\ buffers[1].file.is_modified
             /\ buffers[1].file.filename = hist.buf.file.filename
             /\ buffers[1].file.file_time = hist.buf.file.file_time
        ELSE buffers[1].file = None

\* text went into a buffer whose file was unmodified
C19_Witness ==
    /\ hist.op = "insert" /\ hist.ok
    /\ hist.buf.file.some
    /\ ~hist.buf.file.is_modified
    /\ buffers[1].file.is_modified
    /\ buffers[1].contents # hist.buf.contents

----------------------------------------------------------------------------
(* Claims about the lines handed to the renderer *)

\* the lines of a text, each with its terminator; the last may have none
RECURSIVE TerminatedLines(_)
TerminatedLines(c) ==
    IF Len(c) = 0 THEN << >>
    ELSE LET stops == {i \in 1..Len(c) : c[i] = NL} \cup {Len(c)}
             k == CHOOSE i \in stops : \A j \in stops : i <= j
         IN  <<SubSeq(c, 1, k)>> \o TerminatedLines(SubSeq(c, k + 1, Len(c)))

RECURSIVE Joined(_)
Joined(ss) == IF Len(ss) = 0 THEN << >> ELSE Head(ss) \o Joined(Tail(ss))

OneGrapheme(g) == g = Wide \/ (Len(g) = 1 /\ g[1] \notin {Lead, Cont})

\* C20: nowrap_lines(start_line, end_line) with 0 <= start_line <= end_line <= num_lines
\* returns, grapheme by grapheme, the text of lines start_line..end_line-1 with their
\* terminators (the final line with or without one), and the byte offset at which that
\* text starts in the buffer.
C20_NowrapLinesSlice ==
    (/\ hist.op = "nowrap_lines"
     /\ hist.arg[1] <= hist.arg[2]
     /\ hist.arg[2] <= NumLines(hist.buf)) =>
        LET lines == TerminatedLines(hist.buf.contents)
        IN  /\ hist.ok
            /\ Len(lines) = NumLines(hist.buf)
            /\ \A i \in 1..Len(hist.gs) : OneGrapheme(hist.gs[i])
            /\ Joined(hist.gs) = Joined(SubSeq(lines, hist.arg[1] + 1, hist.arg[2]))
            /\ hist.start_index = Len(Joined(SubSeq(lines, 1, hist.arg[1])))
            /\ hist.start_index = ByteOfLine(hist.buf.contents, hist.arg[1])

\* the lines after the first, up to the end of a buffer whose last line has no terminator
\* and holds a two-byte grapheme
C20_Witness ==
    /\ hist.op = "nowrap_lines"
    /\ hist.ok
    /\ hist.arg[1] = 1
    /\ hist.arg[2] = NumLines(hist.buf)
    /\ hist.arg[2] >= 2
    /\ hist.buf.contents[Len(hist.buf.contents)] = Cont
    /\ hist.start_index > 0
    /\ \E i \in 1..Len(hist.gs) : hist.gs[i] = Wide

----------------------------------------------------------------------------
(* Claims about backdelete_cursor with several cursors *)

\* bytes deleted by the cursors whose original start is at least c
DeletedFrom(orig, cs, c) ==
    SumSeq([i \in 1..Len(cs) |->
               IF cs[i] >= c THEN cs[i] - PrecedingBoundary(orig, cs[i]) ELSE 0])

\* C21 as stated: after backdelete_cursor every cursor's final start is its original
\* start minus the bytes deleted by the cursors whose original start is greater than or
\* equal to its own.
C21_ShiftByLaterCursors ==
    (hist.op = "backdelete" /\ hist.ok) =>
        DOMAIN panes[1].cursors =
            {c - DeletedFrom(hist.buf.contents, OldStarts, c) : c \in DOMAIN hist.pane.cursors}

\* C21 amended: after backdelete_cursor every cursor's final start is its original start
\* minus the bytes deleted by the cursors whose original start is less than or equal to
\* its own, and the main cursor is the one so shifted from the old main cursor.
C21_ShiftByEarlierCursors ==
    (hist.op = "backdelete" /\ hist.ok) =>
        /\ DOMAIN panes[1].cursors =
               {c - DeletedUpTo(hist.buf.contents, OldStarts, c) :
                    c \in DOMAIN hist.pane.cursors}
        /\ panes[1].main_cursor_start =
               hist.pane.main_cursor_start
                   - DeletedUpTo(hist.buf.contents, OldStarts, hist.pane.main_cursor_start)

\* two cursors, one deleting a grapheme of two bytes and one of one byte, both surviving
C21_Witness ==
    /\ hist.op = "backdelete"
    /\ hist.ok
    /\ Cardinality(DOMAIN hist.pane.cursors) = 2
    /\ Cardinality(DOMAIN panes[1].cursors) = 2
    /\ Len(hist.buf.contents) - Len(buffers[1].contents) = 3

\* graphemes between the start of the line of byte i and byte i
ColumnOf(c, i) == GraphemeCount(ByteSlice(c, LineStartOf(c, i), i))

\* C24: backdelete_cursor never deletes before byte 0: a cursor at start 0 stays at 0,
\* also when other cursors of the pane delete graphemes, and no cursor start underflows
\* below 0 (which panics in a build with overflow checks and wraps in one without).
C24_NeverBelowZero ==
    /\ d_pc = "panicked" => d_local.why # "subtract with overflow"
    /\ \A i \in 1..Len(panes) : \A k \in DOMAIN panes[i].cursors : k >= 0
    /\ (d_local.ok /\ d_local.op = "Delete" /\ 0 \in DOMAIN d_local.pane.cursors)
           => 0 \in DOMAIN panes[1].cursors

\* where the cursor that stood at c stands once every cursor has deleted the grapheme
\* before it
LandsAt(c) == c - DeletedUpTo(hist.buf.contents, OldStarts, c)

\* C25: when backdelete_cursor makes cursors land on the same byte offset the pane holds
\* exactly one cursor there: every selection is keyed by its own start, there are as many
\* cursors as distinct landing offsets and never more than before, and the main cursor
\* is where the old main cursor landed, merged or not.
C25_MergedCursorsAreOne ==
    (hist.op = "backdelete" /\ hist.ok) =>
        LET old == DOMAIN hist.pane.cursors
            new == panes[1].cursors
        IN  /\ \A k \in DOMAIN new : new[k].start = k
            /\ Cardinality(DOMAIN new) = Cardinality({LandsAt(c) : c \in old})
            /\ Cardinality(DOMAIN new) <= Cardinality(old)
            /\ \A c \in old : LandsAt(c) \in DOMAIN new
            /\ panes[1].main_cursor_start = LandsAt(hist.pane.main_cursor_start)
            /\ panes[1].main_cursor_start \in DOMAIN new

\* two adjacent cursors, the main cursor one of them, merged into one behind a grapheme
\* that is left
C25_Witness ==
    /\ hist.op = "backdelete"
    /\ hist.ok
    /\ Cardinality(DOMAIN hist.pane.cursors) = 2
    /\ DOMAIN panes[1].cursors = {panes[1].main_cursor_start}
    /\ panes[1].main_cursor_start > 0
    /\ Len(buffers[1].contents) = panes[1].main_cursor_start

\* C22: after backdelete_cursor the returned pane's grapheme_col_offset is the number of
\* graphemes between the start of the main cursor's line and the main cursor, both
\* measured in the returned buffer, for any number of cursors.
C22_ColumnInReturnedBuffer ==
    (hist.op = "backdelete" /\ hist.ok) =>
        panes[1].grapheme_col_offset =
            ColumnOf(buffers[1].contents, panes[1].main_cursor_start)

----------------------------------------------------------------------------
(* Claims about what the movements change and what they leave alone *)

C26_VerticalKeepsColumnField ==
    (hist.op = "move_vertical" /\ hist.ok) =>
        panes[1].grapheme_col_offset = hist.pane.grapheme_col_offset

\* the main cursor went to a line shorter than its column and the column was kept
C26_Witness ==
    /\ hist.op = "move_vertical"
    /\ hist.ok
    /\ panes[1].main_cursor_start # hist.pane.main_cursor_start
    /\ panes[1].grapheme_col_offset = 2
    /\ ColumnOf(buffers[1].contents, panes[1].main_cursor_start) = 0

MoveOps == {"move_horizontal", "move_vertical", "MoveHorizontal", "MoveVertical"}

\* C27: move_horizontal and move_vertical return the buffer they were given, contents
\* and file info (filename, is_modified, file_time), and a pane with the same buffer_id,
\* id and y_offset.
C27_MovesLeaveBufferAlone ==
    (hist.op \in MoveOps /\ hist.ok) =>
        /\ buffers[1].contents = hist.buf.contents
        /\ buffers[1].file = hist.buf.file
        /\ Len(panes) = Len(hist.panes)
        /\ \A i \in 1..Len(panes) :
             /\ panes[i].buffer_id = hist.panes[i].buffer_id
             /\ panes[i].id = hist.panes[i].id
             /\ panes[i].y_offset = hist.panes[i].y_offset

\* the cursor of a scrolled pane moved over a buffer with a file, modified before
C27_Witness ==
    /\ hist.op \in MoveOps
    /\ hist.ok
    /\ hist.buf.file.some
    /\ hist.buf.file.is_modified
    /\ hist.panes[1].y_offset = 1
    /\ hist.panes[1].buffer_id = 1
    /\ panes[1].main_cursor_start # hist.panes[1].main_cursor_start

\* C28: AddCursor(start) adds an empty Selection keyed by start and leaves
\* main_cursor_start, grapheme_col_offset, every other cursor entry and the published
\* buffer as they were.
C28_AddCursorFrame ==
    hist.op = "AddCursor" =>
        LET old == hist.pane
            new == panes[1]
        IN  /\ hist.ok
            /\ DOMAIN new.cursors = DOMAIN old.cursors \cup {hist.arg}
            /\ new.cursors[hist.arg] = Selection(hist.arg, 0)
            /\ \A k \in DOMAIN old.cursors : k # hist.arg => new.cursors[k] = old.cursors[k]
            /\ new.main_cursor_start = old.main_cursor_start
            /\ new.grapheme_col_offset = old.grapheme_col_offset
            /\ new = [old EXCEPT !.cursors = new.cursors]
            /\ buffers = <<hist.buf>>

\* a cursor was added next to two selections that are not empty, away from the main one
C28_Witness ==
    /\ hist.op = "AddCursor"
    /\ hist.ok
    /\ hist.arg \notin DOMAIN hist.pane.cursors
    /\ Cardinality(DOMAIN hist.pane.cursors) = 2
    /\ \A k \in DOMAIN hist.pane.cursors : hist.pane.cursors[k].offset = 1
    /\ Cardinality(DOMAIN panes[1].cursors) = 3
    /\ panes[1].main_cursor_start # hist.arg

----------------------------------------------------------------------------
(* Claims about the dispatcher and the threads around it *)

\* C29: a failed send of the redraw notice (the receiver is gone) does not stop the
\* dispatcher: no notice is queued, the snapshots of the intent stay published, and the
\* dispatcher goes on to apply the later intents; it stops only when the channel is
\* drained, having applied every intent, or where applying an intent itself panics.
C29_FailedNoticeIsNotFatal ==
    ~tx_alive =>
        /\ render_q = << >>
        /\ d_pc = "panicked" => ~fold.ok
        /\ (d_pc = "recv" /\ fold.ok) => buffers = fold.buffers /\ panes = fold.panes
        /\ d_pc = "done" =>
             /\ fold.ok
             /\ fold.applied = hist.queued
             /\ buffers = fold.buffers
             /\ panes = fold.panes

\* three intents were applied, none of their notices could be sent, and the text they
\* made is published
C29_Witness ==
    /\ ~tx_alive
    /\ d_pc = "done"
    /\ hist.queued = 3
    /\ fold.applied = 3
    /\ render_q = << >>
    /\ Len(buffers[1].contents) >= 2
    /\ panes[1].main_cursor_start > 0

\* C30: no pane update is lost between the UI thread and the dispatcher: once both are
\* idle and every intent is applied, the published pane holds the cursors the applied
\* intents made, within the published text, and the mode and y_offset of the UI
\* thread's last key or scroll.
C30_NoLostPaneUpdate ==
    (/\ d_pc = "recv" /\ queue = << >> /\ ui_pc = "idle"
     /\ fold.ok /\ "mode" \in DOMAIN ui_pane) =>
        /\ panes[1].cursors = fold.panes[1].cursors
        /\ panes[1].main_cursor_start = fold.panes[1].main_cursor_start
        /\ \A k \in DOMAIN panes[1].cursors : k >= 0 /\ k <= Len(buffers[1].contents)
        /\ panes[1].mode = ui_pane.mode
        /\ panes[1].y_offset = ui_pane.y_offset

----------------------------------------------------------------------------
(* Claims about what a reader of the published lists may see *)

\* C31: at every instant, also between the dispatcher's two publish steps of one intent,
\* every cursor start of a published pane lies within [0, byte_len] of the published
\* buffer the pane refers to.
C31_PairIsConsistent ==
    \A i \in 1..Len(panes) :
        \A k \in DOMAIN panes[i].cursors :
            k >= 0 /\ k <= ByteLen(buffers[panes[i].buffer_id + 1].contents)

----------------------------------------------------------------------------
(* Claims about the file info and about failures of single intents *)

\* C32: a buffer with a file whose contents an operation has changed has
\* is_modified = true; in particular Insert and Delete on a buffer with a file leave
\* is_modified = true.
C32_ChangedMeansModified ==
    (/\ hist.op # "none"
     /\ hist.ok
     /\ hist.buf.file.some
     /\ buffers[1].contents # hist.buf.contents) =>
        /\ buffers[1].file.some
        /\ buffers[1].file.is_modified

\* C33: a Save intent on a buffer without a file does not end the dispatcher: the thread
\* never stops on the Save arm's lookup of the file of a buffer that has none, so the
\* published buffer stays as it is and the intents behind it are applied.
C33_SaveOfScratchIsHarmless ==
    ~(/\ d_pc = "panicked"
      /\ ~buffers[1].file.some
      /\ d_local.why = "unwrap on None")

\* C34: move_horizontal(0) completes and returns every cursor at its start with offset 0
\* and the buffer unchanged.
C34_MoveByZero ==
    (hist.op = "move_horizontal" /\ hist.arg = 0) =>
        /\ hist.ok
        /\ buffers[1] = hist.buf
        /\ DOMAIN panes[1].cursors = DOMAIN hist.pane.cursors
        /\ \A k \in DOMAIN panes[1].cursors : panes[1].cursors[k] = Selection(k, 0)

----------------------------------------------------------------------------
(* Claims about the shape of the cursor map *)

\* C35: in every state reachable from Pane::new by intents of the dispatcher the cursor
\* map has an entry, every entry is filed under its selection's start, and every
\* selection has offset 0.
C35_CursorMapShape ==
    \A i \in 1..Len(panes) :
        /\ DOMAIN panes[i].cursors # {}
        /\ \A k \in DOMAIN panes[i].cursors : panes[i].cursors[k] = Selection(k, 0)

\* intents have been applied and the pane holds several cursors away from the start
C35_Witness ==
    /\ hist.op # "none"
    /\ hist.applied >= 3
    /\ d_pc = "recv"
    /\ Cardinality(DOMAIN panes[1].cursors) >= 2
    /\ buffers[1].contents # << >>

\* the rank of the start k among the keys of the cursor map
RankOf(cursors, k) == Cardinality({j \in DOMAIN cursors : j < k})

\* C36: insert with a non-empty text neither merges nor reorders cursors: the returned
\* pane has as many cursors as the pane it was given, their starts strictly increasing
\* in the order of the cursors they came from, the main cursor at the rank it had, and
\* the text is longer by (number of cursors) * len(text) bytes.
C36_InsertKeepsCursorsApart ==
    (hist.op = "insert" /\ hist.ok) =>
        LET old == CursorsIter(hist.pane)
            new == CursorsIter(panes[1])
        IN  /\ Len(new) = Len(old)
            /\ \A i \in 1..(Len(new) - 1) : new[i].start < new[i + 1].start
            /\ \A i \in 1..Len(new) : new[i].start > old[i].start
            /\ RankOf(panes[1].cursors, panes[1].main_cursor_start) =
                   RankOf(hist.pane.cursors, hist.pane.main_cursor_start)
            /\ ByteLen(buffers[1].contents) =
                   ByteLen(hist.buf.contents) + Len(old) * Len(hist.arg)

\* a text of two bytes went in at three cursors, the main cursor the middle one
C36_Witness ==
    /\ hist.op = "insert"
    /\ hist.ok
    /\ Len(hist.arg) = 2
    /\ Cardinality(DOMAIN hist.pane.cursors) = 3
    /\ RankOf(hist.pane.cursors, hist.pane.main_cursor_start) = 1
    /\ Cardinality(DOMAIN panes[1].cursors) = 3

----------------------------------------------------------------------------
(* Claims about the keys *)

IsCharacter(k, c) == k.kind = "Character" /\ k.s[1] = c

\* C37: key() changes the mode only from Normal to Insert on the character 'i' and from
\* Insert to Normal on Escape, and does so on these keys; in Normal mode a key yields
\* only MoveHorizontal(+-1), MoveVertical(+-1), Exit or nothing; and the pane returned
\* differs from the pane given in its mode at most.
C37_ModalKeys ==
    (hist.op = "key" /\ hist.ok) =>
        /\ panes[1].mode # hist.pane.mode <=>
               \/ hist.pane.mode = "Normal" /\ IsCharacter(hist.key, "i")
               \/ hist.pane.mode = "Insert" /\ hist.key = Named("Escape")
        /\ hist.pane.mode = "Normal" =>
               \A i \in 1..Len(hist.ops) :
                   \/ hist.ops[i].op \in {"MoveHorizontal", "MoveVertical"}
                          /\ hist.ops[i].arg \in {-1, 1}
                   \/ hist.ops[i].op = "Exit"
        /\ panes[1] = [hist.pane EXCEPT !.mode = panes[1].mode]

\* Escape in Insert mode, on a pane of several cursors that has been scrolled
C37_Witness ==
    /\ hist.op = "key"
    /\ hist.ok
    /\ hist.pane.mode = "Insert"
    /\ panes[1].mode = "Normal"
    /\ Cardinality(DOMAIN panes[1].cursors) >= 2
    /\ panes[1].main_cursor_start > 0
    /\ panes[1].y_offset = 1

----------------------------------------------------------------------------
(* Claims about the published lists *)

\* store(index, v) on list: position index holds v, every other position is as it was,
\* and the list is longer by one exactly when index was its length
StoreFrame(list, index, v) ==
    LET l == Store(list, index, v)
    IN  /\ l[index + 1] = v
        /\ \A j \in 1..Len(list) : j # index + 1 => l[j] = list[j]
        /\ Len(l) = IF index = Len(list) THEN Len(list) + 1 ELSE Len(list)

\* what opening one more pane on the buffer would publish
WithOneMorePane == Store(panes, Len(panes), PaneNew(0, Len(panes)))

\* C38: store(index, v) with index <= len publishes a list with v at position index,
\* every other position unchanged and the length grown by one exactly when index = len;
\* and the pane at index i of the shared pane list has id i in every reachable state, the
\* lists keeping the length App::new gave them.
C38_StoreAtOwnIndex ==
    /\ \A i \in 1..Len(panes) : panes[i].id = i - 1
    /\ Len(panes) = 1
    /\ Len(buffers) = 1
    /\ \A index \in 0..Len(panes) : StoreFrame(panes, index, PaneNew(0, index))
    /\ \A index \in 0..Len(WithOneMorePane) :
           StoreFrame(WithOneMorePane, index, PaneNew(0, index))

\* the dispatcher has stored the pane after edits and after a click
C38_Witness ==
    /\ hist.op \in {"SetMainCursor", "AddCursor"}
    /\ hist.applied >= 2
    /\ d_pc = "recv"
    /\ panes[1].main_cursor_start > 0
    /\ buffers[1].contents # << >>
    /\ Len(render_q) = hist.applied

----------------------------------------------------------------------------
(* Claims about filter_map_terminate *)

\* the number of the first item the closure answers Terminate for, or one past the last
FirstTerminate(items) ==
    IF \E i \in 1..Len(items) : items[i] = "Terminate"
    THEN CHOOSE i \in 1..Len(items) :
             items[i] = "Terminate" /\ \A j \in 1..(i - 1) : items[j] # "Terminate"
    ELSE Len(items) + 1

\* the items before the first Terminate for which the closure returns Some, in order
RECURSIVE SomesBefore(_, _)
SomesBefore(items, n) ==
    IF n = 0 THEN << >>
    ELSE SomesBefore(items, n - 1) \o (IF items[n] = "Some" THEN <<n>> ELSE << >>)

\* C39: the adaptor yields, in order, exactly the values of the items before the first
\* Terminate for which the closure returned Some: one for each next() until they are
\* used up, then None; and once the closure has returned Terminate, next() returns None
\* without another call of the closure or of the underlying iterator.
C39_YieldsUpToTerminate ==
    LET stop == FirstTerminate(fmt.items)
        expected == SomesBefore(fmt.items, stop - 1)
    IN  /\ fmt.yielded = SubSeq(expected, 1, Min(fmt.nexts, Len(expected)))
        /\ fmt.last = "None" <=> fmt.nexts > Len(expected)
        /\ fmt.calls <= Min(stop, Len(fmt.items))
        /\ fmt.terminated =>
               /\ fmt.calls = stop
               /\ fmt.pos = stop
               /\ fmt.polls = stop

\* next() has been called again after the Terminate, with a Some still behind it
C39_Witness ==
    /\ fmt.terminated
    /\ fmt.yielded # << >>
    /\ fmt.nexts >= Len(fmt.yielded) + 2
    /\ \E i \in (FirstTerminate(fmt.items) + 1)..Len(fmt.items) : fmt.items[i] = "Some"

====
